---- MODULE Spec2Model ----
(***************************************************************************)
(* Model of the node-updater operator (norbinto/node-updater).             *)
(*                                                                         *)
(* The world is the state the operator reads and writes through its three  *)
(* external interfaces: the cloud control plane (agent pools), the cluster *)
(* API (nodes, pods, jobs, the scaling-state ConfigMap) and the agent-pool *)
(* service (agent registrations).  SafeEvictReconciler.Reconcile is        *)
(* modelled statement block by statement block; pc is its position.        *)
(* Cloud operations are asynchronous: a Begin* call leaves the pool in a   *)
(* transitional provisioning state until CompleteOp fires.  A pass is      *)
(* short against pool creation, image upgrade and deletion, which finish   *)
(* between passes, as do workload changes (pods appearing, pods going      *)
(* idle, image drift); a scaling update may be over before the pass looks  *)
(* at the pool again.                                                      *)
(***************************************************************************)
EXTENDS Integers, Sequences, FiniteSets, TLC

\* ---------------------------------------------------------------- bounds
\* Highest node-image version the upgrade profile ever announces.
MaxVersion == 2

\* ------------------------------------------------------- campaign (spec)
\* SafeEvictSpec.Nodepools: monitored pools, in list order.
Nodepools == <<"p1", "p2">>
\* SafeEvictSpec.Namespaces: guarded namespaces.
Namespaces == <<"ns1">>
\* SafeEvictSpec.LastLogLines: idle sentinels (a log is a sequence of lines).
LastLogLines == << <<"idle">> >>
\* SafeEvictSpec.BaseForBackupPool
BaseForBackupPool == "base"
\* SafeEvict.GetTemporaryNodepoolName() for the base pool above.
TmpPool == "tmpbase"

PoolNames == {"p1", "p2", "base", "tmpbase"}
NodeNames == {"n1", "n2", "t1"}
PodNames == {"a", "b", "c", "d"}
\* The order in which the cluster API lists pods (by key).
PodOrder == <<"a", "b", "c", "d">>
\* The order in which the cluster API lists nodes (by key).
NodeOrder == <<"n1", "n2", "t1">>

\* A *int32: <<>> is nil, <<v>> points to v.
NilPtr == <<>>
Ptr(v) == <<v>>

Range(f) == {f[x] : x \in DOMAIN f}
EmptyMap == [x \in {} |-> 0]

VARIABLES
    selector,   \* SafeEvictSpec.LabelSelector of the campaign
    pools,      \* cloud control plane: agent pools
    nodes,      \* cluster: nodes
    pods,       \* cluster: pods
    jobs,       \* cluster: names of the pods whose owning Job exists
    agents,     \* agent-pool service: registration per pod name
    cm,         \* cluster: the scaling-state ConfigMap
    pc,         \* position of Reconcile
    loc,        \* local variables of the running pass
    ret,        \* reconcile.Result and error of the last return
    acts,       \* kinds of mutating calls that went through in the pass
    failed,     \* some call of the pass returned an error
    fnOut       \* a function applied on its own: inputs and result

world == <<pools, nodes, pods, jobs, agents, cm>>
vars == <<selector, pools, nodes, pods, jobs, agents, cm, pc, loc, ret, acts, failed, fnOut>>

\* ------------------------------------------------------------ data types
\* armcontainerservice.AgentPool, the fields the operator reads or writes.
Pool(ex, mode, st, auto, mn, mx, cnt, latest) ==
    [exists |-> ex, mode |-> mode, state |-> st, auto |-> auto,
     min |-> mn, max |-> mx, count |-> cnt, latest |-> latest]
NoPool == Pool(FALSE, "User", "Succeeded", FALSE, NilPtr, NilPtr, 1, 1)

\* corev1.Node: the agentpool label, the node-image-version label and
\* Spec.Unschedulable; present says whether the node is in the cluster.
Node(pool, ver, unsched, present) ==
    [pool |-> pool, version |-> ver, unsched |-> unsched, present |-> present]

\* corev1.Pod: namespace, Spec.NodeName, Status.Phase, labels, the log the
\* API streams for it, whether a container carries AZP_POOL, and its
\* owner references (kind and name).
Pod(present, ns, node, phase, labels, logs, env, owner) ==
    [present |-> present, ns |-> ns, node |-> node, phase |-> phase,
     labels |-> labels, logs |-> logs, env |-> env, owner |-> owner]

\* The owner references of a pod created by the Job of that name.
JobRef(name) == << [kind |-> "Job", name |-> name] >>

BusyLog == <<"work">>
IdleLog == <<"work", "idle">>

\* reconcile.Result.RequeueAfter (appconfig.Config) and the returned error.
Result(after, err) == [after |-> after, err |-> err]
NoResult == Result("none", FALSE)

\* ----------------------------------------------------- pure Go functions
\* strings.HasSuffix on logs seen as sequences of lines.
HasSuffix(s, suffix) ==
    /\ Len(suffix) <= Len(s)
    /\ SubSeq(s, Len(s) - Len(suffix) + 1, Len(s)) = suffix

\* slices.Contains
Contains(seq, x) == \E i \in DOMAIN seq : seq[i] = x

\* pod.Labels[key]: the zero value "" when the key is missing.
LabelOf(labels, key) == IF key \in DOMAIN labels THEN labels[key] ELSE ""

RECURSIVE Repeat(_, _)
Repeat(x, n) == IF n = 0 THEN <<>> ELSE <<x>> \o Repeat(x, n - 1)

\* --------------------------------------------------------- the campaign
\* The label selectors a campaign may carry: none, one entry, two entries.
Selectors ==
    { EmptyMap, [k \in {"k1"} |-> "done"], [k \in {"k1", "k2"} |-> "done"] }

\* The selectors of the campaigns that are run: with one entry pod b counts
\* as done, with two entries every pod misses at least one.
CampaignSelectors == Selectors \ {EmptyMap}

\* updatev1.SafeEvictSpec
SafeEvictSpec ==
    [LabelSelector |-> selector, LastLogLines |-> LastLogLines,
     Nodepools |-> Nodepools, Namespaces |-> Namespaces,
     BaseForBackupPool |-> BaseForBackupPool]

\* No application of GetSafeToEvictPods on its own has been made.
NoOut == [applied |-> FALSE, logFails |-> {}, out |-> <<>>]

\* ------------------------------------------------- PodController (reads)
\* SafeToEvictCopies without the test of the pod's phase.
SafeToEvictCopies_AnyPhase(p, spec, logFail) ==
    IF /\ ~logFail
       /\ \E i \in DOMAIN spec.LastLogLines : HasSuffix(p.logs, spec.LastLogLines[i])
    THEN Cardinality({k \in DOMAIN spec.LabelSelector :
                         LabelOf(p.labels, k) # spec.LabelSelector[k]})
    ELSE 0

\* SafeToEvictCopies appending the pod only when it carries none of the
\* selector's entries.
SafeToEvictCopies_NoneMatch(p, spec, logFail) ==
    IF /\ p.phase = "Running"
       /\ ~logFail
       /\ \E i \in DOMAIN spec.LastLogLines : HasSuffix(p.logs, spec.LastLogLines[i])
       /\ \A k \in DOMAIN spec.LabelSelector :
              LabelOf(p.labels, k) # spec.LabelSelector[k]
    THEN Cardinality(DOMAIN spec.LabelSelector)
    ELSE 0

\* The iterations of the label loop of GetSafeToEvictPods that append the
\* pod: one per selector entry the pod does not carry, when the pod is
\* Running, its log can be fetched and the log ends with a sentinel.
SafeToEvictCopies(p, spec, logFail) ==
    IF /\ p.phase = "Running"
       /\ ~logFail
       /\ \E i \in DOMAIN spec.LastLogLines : HasSuffix(p.logs, spec.LastLogLines[i])
    THEN Cardinality({k \in DOMAIN spec.LabelSelector :
                         LabelOf(p.labels, k) # spec.LabelSelector[k]})
    ELSE 0

\* PodController.GetSafeToEvictPods over the pod list ps (name -> pod) in
\* listing order; logFails are the pods whose log stream cannot be read.
RECURSIVE GetSafeToEvictPods(_, _, _, _)
GetSafeToEvictPods(ps, order, spec, logFails) ==
    IF order = <<>> THEN <<>>
    ELSE LET name == Head(order)
             p == ps[name]
             here == IF ~p.present \/ ~Contains(spec.Namespaces, p.ns)
                     THEN <<>>
                     ELSE Repeat(name, SafeToEvictCopies(p, spec, name \in logFails))
         IN here \o GetSafeToEvictPods(ps, Tail(order), spec, logFails)

\* filterPodsOnNodes keeping every pod that has a node at all.
filterPodsOnNodes_AnyNode(ps, safeToEvictPods, outdatedNodes) ==
    SelectSeq(safeToEvictPods, LAMBDA name : ps[name].node # "")

\* filterPodsOnNodes: the pods of the list that run on one of the nodes.
filterPodsOnNodes(ps, safeToEvictPods, outdatedNodes) ==
    SelectSeq(safeToEvictPods, LAMBDA name : ps[name].node \in outdatedNodes)

\* ------------------------------------------- NodePoolController (reads)
\* NodePoolController.GetNodesByNodePool: the nodes labelled agentpool=name.
GetNodesByNodePool(nodePoolName) ==
    {n \in NodeNames : nodes[n].present /\ nodes[n].pool = nodePoolName}

\* The same nodes in listing order.
NodeSeqOfPool(nodePoolName) ==
    SelectSeq(NodeOrder, LAMBDA n : n \in GetNodesByNodePool(nodePoolName))

\* The orders in which the API server may list the nodes.
NodeOrders ==
    {o \in [1..Cardinality(NodeNames) -> NodeNames] :
        \A i, j \in DOMAIN o : o[i] = o[j] => i = j}

\* The version map without the test of the pool names: every pool that
\* has a labelled node gets an entry.
getNodeImageVersionsIn_AllPools(order, nodePoolNames) ==
    LET have == {p \in PoolNames : GetNodesByNodePool(p) # {}}
        seq(p) == SelectSeq(order, LAMBDA n : n \in GetNodesByNodePool(p))
    IN [p \in have |-> nodes[Head(seq(p))].version]

\* NodePoolController.getNodeImageVersions on a node list in the given
\* order: for every named pool with a labelled node, the image version of
\* its first listed node.
getNodeImageVersionsIn(order, nodePoolNames) ==
    LET have == {p \in Range(nodePoolNames) : GetNodesByNodePool(p) # {}}
        seq(p) == SelectSeq(order, LAMBDA n : n \in GetNodesByNodePool(p))
    IN [p \in have |-> nodes[Head(seq(p))].version]

\* The same on the usual listing order.
getNodeImageVersions(nodePoolNames) == getNodeImageVersionsIn(NodeOrder, nodePoolNames)

\* NodePoolController.getNodePoolUpgradeProfile
getNodePoolUpgradeProfile(nodePoolName) == pools[nodePoolName].latest

\* NodePoolController.UpdateNeeded on a node list in the given order:
\* outdated nodes and pools by version.
UpdateNeededIn(order, nodePools) ==
    LET vers == getNodeImageVersionsIn(order, nodePools)
        stale == {p \in DOMAIN vers : vers[p] # getNodePoolUpgradeProfile(p)}
    IN [nodes |-> UNION {GetNodesByNodePool(p) : p \in stale},
        pools |-> [p \in stale |-> pools[p]]]

\* The same on the usual listing order.
UpdateNeeded(nodePools) == UpdateNeededIn(NodeOrder, nodePools)

\* NodePoolController.GetNotReadyNodePools
GetNotReadyNodePools(nodepools) ==
    LET busy == {p \in Range(nodepools) : pools[p].state # "Succeeded"}
    IN [p \in busy |-> pools[p]]

\* Every answer of the Get, not-found included, read as "the pool exists".
NodePoolExists_Always(nodePoolName) == TRUE

\* NodePoolController.NodePoolExists
NodePoolExists(nodePoolName) == pools[nodePoolName].exists

\* NodePoolController.HasRunningStatefulPods
HasRunningStatefulPods(nodeSet, namespaces) ==
    \E name \in PodNames :
        /\ pods[name].present
        /\ Contains(namespaces, pods[name].ns)
        /\ pods[name].phase = "Running"
        /\ pods[name].node \in nodeSet

\* -------------------------------------------------- ConfigMapController
NoConfigMap == [exists |-> FALSE, data |-> EmptyMap]

\* The value Reconcile formats for a pool: a JSON object, kept as its
\* sequence of key/value members.
ScalingEntry(pool) ==
    IF pool.min # NilPtr \/ pool.max # NilPtr
    THEN << <<"MinCount", pool.min[1]>>, <<"MaxCount", pool.max[1]>> >>
    ELSE << <<"Count", pool.count>> >>

\* The configData map Reconcile builds from the outdated pools.
ConfigData(outdatedNodePools) ==
    [p \in DOMAIN outdatedNodePools |-> ScalingEntry(outdatedNodePools[p])]

\* json.Unmarshal into map[string]int: member name -> value.
ParseScaling(scalingData) ==
    [k \in {scalingData[i][1] : i \in DOMAIN scalingData} |->
        LET i == CHOOSE j \in DOMAIN scalingData : scalingData[j][1] = k
        IN scalingData[i][2]]

\* CreateConfigMap as an upsert: an existing map takes the new data.
CreateConfigMap_Overwrite(c, data) == [exists |-> TRUE, data |-> data]

\* ConfigMapController.CreateConfigMap: nothing changes when it exists.
CreateConfigMap(c, data) ==
    IF c.exists THEN c ELSE [exists |-> TRUE, data |-> data]

\* ConfigMapController.DeleteConfigMap: deleting an absent map succeeds.
DeleteConfigMap(c) == NoConfigMap

\* Deleting an absent map is an error like any other.
DeleteConfigMapCall_NotFoundFails(c, apiErr) ==
    IF apiErr \/ ~c.exists
    THEN [cm |-> c, err |-> TRUE]
    ELSE [cm |-> DeleteConfigMap(c), err |-> FALSE]

\* ConfigMapController.DeleteConfigMap with its return value; apiErr says
\* that the API server answers the delete with an error other than
\* not-found.
DeleteConfigMapCall(c, apiErr) ==
    IF apiErr
    THEN [cm |-> c, err |-> TRUE]
    ELSE [cm |-> DeleteConfigMap(c), err |-> FALSE]

\* ConfigMapController.GetConfigMapData: the data, nil when not found.
GetConfigMapData(c) == IF c.exists THEN c.data ELSE EmptyMap

\* ------------------------------------------------------ the cloud's part
\* BeginCreateOrUpdate on an existing pool, accepted: the scaling profile
\* of the request replaces the pool's and the pool starts updating; a
\* quick update is over before the operator reads the pool again.
PoolAfterUpdate(live, body, quick) ==
    [live EXCEPT !.auto = body.auto, !.min = body.min, !.max = body.max,
                 !.count = body.count,
                 !.state = IF quick THEN "Succeeded" ELSE "Updating"]

\* The new pool is requested with one node and no autoscaling.
NewPoolFrom_Default(src) ==
    Pool(TRUE, "User", "Creating", FALSE, NilPtr, NilPtr, 1, src.latest)

\* The pool CreateTemporaryNodePool requests: the source pool's profile.
NewPoolFrom(src) ==
    Pool(TRUE, src.mode, "Creating", src.auto, src.min, src.max, src.count, src.latest)

AbsentPod(p) == [p EXCEPT !.present = FALSE, !.node = "", !.logs = BusyLog]

\* An asynchronous pool operation finishes.
CompleteOp(p) ==
    /\ pools[p].exists
    /\ pools[p].state \in {"Creating", "Updating", "UpgradingNodeImageVersion", "Deleting"}
    /\ pc = "idle"
    /\ LET st == pools[p].state
           mine == {n \in NodeNames : nodes[n].pool = p}
       IN CASE st = "Creating" ->
                 /\ pools' = [pools EXCEPT ![p].state = "Succeeded"]
                 /\ nodes' = [n \in NodeNames |->
                                IF n \in mine
                                THEN Node(p, pools[p].latest, FALSE, TRUE)
                                ELSE nodes[n]]
                 /\ UNCHANGED <<pods, jobs, agents>>
            [] st = "Updating" ->
                 /\ pools' = [pools EXCEPT ![p].state = "Succeeded"]
                 /\ UNCHANGED <<nodes, pods, jobs, agents>>
            [] st = "UpgradingNodeImageVersion" ->
                 /\ pools' = [pools EXCEPT ![p].state = "Succeeded"]
                 /\ nodes' = [n \in NodeNames |->
                                IF n \in mine /\ nodes[n].present
                                THEN [nodes[n] EXCEPT !.version = pools[p].latest]
                                ELSE nodes[n]]
                 /\ UNCHANGED <<pods, jobs, agents>>
            [] st = "Deleting" ->
                 /\ pools' = [pools EXCEPT ![p] = NoPool]
                 /\ nodes' = [n \in NodeNames |->
                                IF n \in mine THEN Node(p, 1, FALSE, FALSE) ELSE nodes[n]]
                 /\ pods' = [x \in PodNames |->
                                IF pods[x].present /\ pods[x].node \in mine
                                THEN AbsentPod(pods[x]) ELSE pods[x]]
                 /\ jobs' = jobs \ {x \in PodNames : pods[x].present /\ pods[x].node \in mine}
                 /\ agents' = [x \in PodNames |->
                                IF pods[x].present /\ pods[x].node \in mine
                                THEN "none" ELSE agents[x]]
    /\ UNCHANGED <<selector, cm, pc, loc, ret, acts, failed, fnOut>>

\* A newer node image is released for the OS image the monitored pools
\* share: the upgrade profile of each of them names it as the latest.
Drift ==
    /\ pc = "idle"
    /\ \A p \in Range(Nodepools) : pools[p].latest < MaxVersion
    /\ pools' = [p \in PoolNames |-> IF p \in Range(Nodepools)
                                     THEN [pools[p] EXCEPT !.latest = @ + 1]
                                     ELSE pools[p]]
    /\ UNCHANGED <<selector, nodes, pods, jobs, agents, cm, pc, loc, ret, acts, failed, fnOut>>

\* The workload pods that come and go.
Workers == {"a"}

\* A worker pod is scheduled on a schedulable node: it runs, registers its
\* agent and is owned by a fresh Job.
Schedule(x, n) ==
    /\ pc = "idle"
    /\ x \in Workers /\ ~pods[x].present
    /\ nodes[n].present /\ ~nodes[n].unsched
    /\ pods' = [pods EXCEPT ![x].present = TRUE, ![x].node = n, ![x].logs = BusyLog]
    /\ jobs' = jobs \cup {x}
    /\ agents' = [agents EXCEPT ![x] = "enabled"]
    /\ UNCHANGED <<selector, pools, nodes, cm, pc, loc, ret, acts, failed, fnOut>>

\* A worker pod finishes its work: its log ends with the idle sentinel.
GoIdle(x) ==
    /\ pc = "idle"
    /\ x \in Workers /\ pods[x].present /\ pods[x].logs = BusyLog
    /\ pods' = [pods EXCEPT ![x].logs = IdleLog]
    /\ UNCHANGED <<selector, pools, nodes, jobs, agents, cm, pc, loc, ret, acts, failed, fnOut>>

\* ------------------------------------------------ Reconcile: bookkeeping
LocInit ==
    [outdatedNodes |-> {}, outdatedNodePools |-> EmptyMap, tmpExists |-> FALSE,
     configMapData |-> EmptyMap, mode |-> "main", evPools |-> EmptyMap,
     todo |-> {}, evList |-> <<>>, idx |-> 1, rtodo |-> {}, tmpNodes |-> {}]

\* return reconcile.Result{RequeueAfter: after}, err: the locals of the
\* pass are gone.
Return(after, err, isFailure) ==
    /\ pc' = "done"
    /\ loc' = LocInit
    /\ ret' = Result(after, err)
    /\ failed' = (failed \/ isFailure)

\* The pass goes on at position next.
Goto(next) ==
    /\ pc' = next
    /\ UNCHANGED <<ret, failed>>

Did(call) == acts' = acts \cup {call}

\* The test of line 114 never passing.
NothingOutdated_Never(l) == FALSE

NothingOutdated(l) == l.outdatedNodes = {} /\ DOMAIN l.outdatedNodePools = {}

\* ------------------------------------- Reconcile, lines 73-110: observe
BeginPass ==
    /\ pc = "idle"
    /\ \E f \in {"ok", "get", "update", "notready", "exists"} :
         IF f = "ok"
         THEN \E order \in NodeOrders :
              LET un == UpdateNeededIn(order, Nodepools)
                  nr == GetNotReadyNodePools(Nodepools)
              IN /\ loc' = [LocInit EXCEPT !.outdatedNodes = un.nodes,
                                           !.outdatedNodePools = nr @@ un.pools,
                                           !.tmpExists = NodePoolExists(TmpPool)]
                 /\ Goto("surge")
         ELSE Return("Error", f # "update", TRUE)
    /\ UNCHANGED <<selector, world, acts, fnOut>>

\* --------------------- Reconcile, lines 112-141: the temporary node pool
Surge ==
    /\ pc = "surge"
    /\ IF ~loc.tmpExists /\ NothingOutdated(loc)
       THEN \E ok \in BOOLEAN :
              LET del == DeleteConfigMapCall(cm, ~ok)
              IN IF ~del.err
                 THEN /\ cm' = del.cm
                      /\ IF cm.exists THEN Did("deleteConfigMap")
                                      ELSE UNCHANGED acts
                      /\ Return("Upgrade", FALSE, FALSE)
                      /\ UNCHANGED pools
                 ELSE /\ Return("Error", TRUE, TRUE)
                      /\ UNCHANGED <<cm, pools, acts>>
       ELSE IF ~loc.tmpExists
       THEN \E f \in {"ok", "create", "state"} :
              IF f = "create"
              THEN /\ Return("Error", FALSE, TRUE)
                   /\ UNCHANGED <<cm, pools, acts>>
              ELSE /\ pools' = [pools EXCEPT ![TmpPool] = NewPoolFrom(pools[BaseForBackupPool])]
                   /\ Did("createPool")
                   /\ IF f = "ok" THEN Return("Success", FALSE, FALSE)
                                  ELSE Return("Error", TRUE, TRUE)
                   /\ UNCHANGED cm
       ELSE \E ok \in BOOLEAN :
              /\ IF ~ok \/ ~pools[TmpPool].exists
                 THEN Return("Error", TRUE, TRUE)
                 ELSE IF pools[TmpPool].state = "Creating"
                 THEN Return("Success", FALSE, FALSE)
                 ELSE Goto("record") /\ UNCHANGED loc
              /\ UNCHANGED <<cm, pools, acts>>
    /\ UNCHANGED <<selector, nodes, pods, jobs, agents, fnOut>>

\* ------------------------ Reconcile, lines 143-164: the scaling record
\* The ConfigMap after lines 143-158: created from the outdated pools when
\* GetConfigMapData reports not found, left alone otherwise.
RecordWrite(c, outdatedNodePools) ==
    IF ~c.exists THEN CreateConfigMap(c, ConfigData(outdatedNodePools)) ELSE c

Record ==
    /\ pc = "record"
    /\ \E ok \in BOOLEAN :
         IF ok
         THEN /\ cm' = RecordWrite(cm, loc.outdatedNodePools)
              /\ IF cm' # cm THEN Did("createConfigMap") ELSE UNCHANGED acts
              /\ loc' = [loc EXCEPT !.configMapData = GetConfigMapData(cm),
                                    !.mode = "main",
                                    !.evPools = loc.outdatedNodePools,
                                    !.todo = DOMAIN loc.outdatedNodePools]
              /\ Goto("disable")
         ELSE /\ Return("Error", TRUE, TRUE)
              /\ UNCHANGED <<cm, acts>>
    /\ UNCHANGED <<selector, pools, nodes, pods, jobs, agents, fnOut>>

\* ------------------------------- performSafeEviction and its callees
\* An error inside performSafeEviction: Reconcile returns it at line 170
\* and drops it at line 273, where the pass goes on to the removal check.
EvictionError ==
    IF loc.mode = "main"
    THEN Return("Error", TRUE, TRUE)
    ELSE /\ pc' = "tremove"
         /\ failed' = TRUE
         /\ UNCHANGED <<ret, loc>>

\* NodePoolController.DisableAutoScaling skips system pools and pools the
\* caller saw in another state than Succeeded.
DisableSkips(agentPool) ==
    agentPool.mode = "System" \/ agentPool.state # "Succeeded"

\* The request body of DisableAutoScaling: the caller's copy of the pool
\* with EnableAutoScaling set to false.
DisableBody(agentPool) == [agentPool EXCEPT !.auto = FALSE]

\* NodePoolController.DisableAutoScaling, one pool of the map per step (Go
\* ranges over the map in any order).  A 409 ends the call with success.
DisableStep ==
    /\ pc = "disable"
    /\ LET done(l) ==
             \* DisableAutoScaling returned nil
             IF l.mode = "tmp255"
             THEN \E ok \in BOOLEAN :
                    IF ok
                    THEN /\ loc' = [l EXCEPT !.mode = "tmp",
                                             !.tmpNodes = GetNodesByNodePool(TmpPool),
                                             !.todo = {TmpPool}]
                         /\ Goto("disable")
                    ELSE Return("Error", TRUE, TRUE)
             ELSE /\ loc' = [l EXCEPT !.todo = DOMAIN l.evPools]
                  /\ Goto("drain")
           error ==
             \* DisableAutoScaling returned an error
             IF loc.mode = "tmp255" THEN Return("Error", TRUE, TRUE) ELSE EvictionError
       IN IF loc.todo = {}
          THEN done(loc) /\ UNCHANGED <<pools, acts>>
          ELSE \E p \in loc.todo :
                 LET rest == [loc EXCEPT !.todo = @ \ {p}]
                 IN IF DisableSkips(loc.evPools[p])
                    THEN /\ loc' = rest /\ Goto("disable") /\ UNCHANGED <<pools, acts>>
                    ELSE \E r \in {"accepted", "quick", "conflict", "error"} :
                           CASE r \in {"accepted", "quick"} ->
                                  /\ pools[p].exists /\ pools[p].state = "Succeeded"
                                  /\ pools' = [pools EXCEPT ![p] =
                                        PoolAfterUpdate(pools[p], DisableBody(loc.evPools[p]),
                                                        r = "quick")]
                                  /\ Did("disableAutoScaling")
                                  /\ loc' = rest /\ Goto("disable")
                             [] r = "conflict" ->
                                  done(loc) /\ UNCHANGED <<pools, acts>>
                             [] r = "error" ->
                                  error /\ UNCHANGED <<pools, acts>>
    /\ UNCHANGED <<selector, nodes, pods, jobs, agents, cm, fnOut>>

\* The flag is set on the first k nodes of the cluster, whatever their pool.
CordonNodes_AnyPool(nodePoolName, k, toCordon) ==
    LET hit == {NodeOrder[i] : i \in 1..k}
    IN [n \in NodeNames |->
          IF n \in hit THEN [nodes[n] EXCEPT !.unsched = toCordon] ELSE nodes[n]]

\* NodePoolController.CordonNodesByAgentPool after k node updates went
\* through: the first k nodes of the pool carry the flag.
CordonNodes(nodePoolName, k, toCordon) ==
    LET seq == NodeSeqOfPool(nodePoolName)
        hit == {seq[i] : i \in 1..k}
    IN [n \in NodeNames |->
          IF n \in hit THEN [nodes[n] EXCEPT !.unsched = toCordon] ELSE nodes[n]]

CordonActs(k, toCordon) ==
    IF k = 0 THEN {} ELSE {IF toCordon THEN "cordon" ELSE "uncordon"}

\* The pods performSafeEviction hands to EvictIdlePods for one pool.
PodsToEvict(poolName, logFails) ==
    filterPodsOnNodes(pods,
                      GetSafeToEvictPods(pods, PodOrder, SafeEvictSpec, logFails),
                      GetNodesByNodePool(poolName))

\* performSafeEviction, the loop body up to the call of EvictIdlePods.
DrainStep ==
    /\ pc = "drain"
    /\ IF loc.todo = {}
       THEN /\ Goto(IF loc.mode = "main" THEN "upgrade" ELSE "tremove")
            /\ UNCHANGED <<nodes, loc, acts>>
       ELSE \E p \in loc.todo :
            \E k \in 0..Len(NodeSeqOfPool(p)) :
            \E logFails \in {{}} \cup {{x} : x \in Workers} :
            \E listed \in BOOLEAN :
              /\ nodes' = CordonNodes(p, k, TRUE)
              /\ acts' = acts \cup CordonActs(k, TRUE)
              /\ IF k < Len(NodeSeqOfPool(p)) \/ ~listed
                 THEN /\ logFails = {}
                      /\ k < Len(NodeSeqOfPool(p)) => listed
                      /\ EvictionError
                 ELSE /\ loc' = [loc EXCEPT !.todo = @ \ {p},
                                            !.evList = PodsToEvict(p, logFails)]
                      /\ Goto(IF PodsToEvict(p, logFails) # <<>> THEN "evict" ELSE "drain")
    /\ UNCHANGED <<selector, pools, pods, jobs, agents, cm, fnOut>>

\* strings.ToLower on the kinds of owner references that occur.
ToLower(kind) ==
    CASE kind \in {"Job", "JOB", "job"} -> "job"
      [] kind = "ReplicaSet" -> "replicaset"
      [] OTHER -> kind

\* The name of the first owner reference whose kind is "job" in lower
\* case, "" when there is none.
JobOwner(refs) ==
    LET at == {i \in DOMAIN refs : ToLower(refs[i].kind) = "job"}
    IN IF at = {} THEN ""
       ELSE refs[CHOOSE i \in at : \A j \in at : i <= j].name

\* The owner's kind compared as it is written.
KillJobByPod_CaseSensitive(pod, js, apiErr) ==
    LET at == {i \in DOMAIN pod.owner : pod.owner[i].kind = "Job"}
        jobName == IF at = {} THEN ""
                   ELSE pod.owner[CHOOSE i \in at : \A j \in at : i <= j].name
    IN IF jobName = "" \/ apiErr \/ jobName \notin js
       THEN [jobs |-> js, err |-> TRUE]
       ELSE [jobs |-> js \ {jobName}, err |-> FALSE]

\* JobController.KillJobByPod on the Jobs js: the Jobs left and whether an
\* error is returned.  A pod without owner references or without one of
\* kind Job is an error; so is a failed Delete (apiErr, or the Job is not
\* there).
KillJobByPod(pod, js, apiErr) ==
    LET jobName == JobOwner(pod.owner)
    IN IF Len(pod.owner) = 0 \/ jobName = "" \/ apiErr \/ jobName \notin js
       THEN [jobs |-> js, err |-> TRUE]
       ELSE [jobs |-> js \ {jobName}, err |-> FALSE]

\* Every sub-step goes through whatever is left of the pod, its agent and
\* its Job.
ForcedStop_Never(x) == 6

\* The sub-step of EvictIdlePods that fails for pod x without any fault:
\* 1 getPodsPool, 2 DisableAgent, 3 RemoveAgent, 4 KillJobByPod, 5 KillPod,
\* 6 none.
ForcedStop(x) ==
    IF ~pods[x].present \/ ~pods[x].env THEN 1
    ELSE IF agents[x] = "none" THEN 2
    ELSE IF KillJobByPod(pods[x], jobs, FALSE).err THEN 4
    ELSE 6

\* The calls of EvictIdlePods for pod x that went through before sub-step
\* stop failed (stop 6: all of them).
EvictActs(x, stop) ==
    {c[2] : c \in {c \in { <<2, "disableAgent">>, <<3, "removeAgent">>,
                            <<4, "deleteJob">>, <<5, "deletePod">> } : c[1] < stop}}

\* PodController.EvictIdlePods, one pod of the list per step.
EvictStep ==
    /\ pc = "evict"
    /\ loc.evList # <<>>
    /\ \E fault \in 1..6 :
         LET x == Head(loc.evList)
             stop == IF ForcedStop(x) < fault THEN ForcedStop(x) ELSE fault
         IN /\ fault >= ForcedStop(x) => fault = 6
            /\ agents' = [agents EXCEPT ![x] =
                            IF stop > 3 THEN "none"
                            ELSE IF stop > 2 THEN "disabled" ELSE @]
            /\ jobs' = IF stop > 4 THEN KillJobByPod(pods[x], jobs, FALSE).jobs ELSE jobs
            /\ pods' = IF stop > 5 THEN [pods EXCEPT ![x] = AbsentPod(@)] ELSE pods
            /\ acts' = acts \cup EvictActs(x, stop)
            /\ IF stop = 6
               THEN /\ loc' = [loc EXCEPT !.evList = Tail(@)]
                    /\ Goto(IF Tail(loc.evList) # <<>> THEN "evict" ELSE "drain")
               ELSE EvictionError
    /\ UNCHANGED <<selector, pools, nodes, cm, fnOut>>

\* ---------------------------- Reconcile, lines 174-215: image upgrades
\* NodePoolController.UpgradeNodeImageVersion up to the Begin call: the
\* upgrade is requested unless the pool is upgrading or updating, or the
\* version of its first listed node is the latest one.  A pool without a
\* labelled node has no entry in the version map and reads as "".
UpgradeWanted(name, nodepool) ==
    LET vers == getNodeImageVersions(<<name>>)
        cur == IF name \in DOMAIN vers THEN vers[name] ELSE 0
    IN /\ nodepool.state \notin {"UpgradingNodeImageVersion", "Updating"}
       /\ cur # getNodePoolUpgradeProfile(name)

\* The gate of line 184 left open whatever runs on the pool.
UpgradeGateOpen_Always(name) == TRUE

\* Reconcile, line 184: whether the pool is passed on to the upgrade.
UpgradeGateOpen(name) ==
    ~HasRunningStatefulPods(GetNodesByNodePool(name), Namespaces)

UpgradeStep ==
    /\ pc = "upgrade"
    /\ LET name == Nodepools[loc.idx]
           next == /\ loc' = [loc EXCEPT !.idx = @ + 1,
                                         !.rtodo = DOMAIN loc.configMapData
                                                   \ DOMAIN loc.outdatedNodePools]
                   /\ Goto(IF loc.idx < Len(Nodepools) THEN "upgrade" ELSE "restore")
       IN \E f \in {"ok", "read", "begin"} :
            CASE f = "read" ->
                   /\ Return("Error", TRUE, TRUE)
                   /\ UNCHANGED <<pools, acts>>
              [] f = "ok" ->
                   IF ~UpgradeGateOpen(name)
                   THEN next /\ UNCHANGED <<pools, acts>>
                   ELSE IF pools[name].state = "UpgradingNodeImageVersion"
                   THEN /\ Return("Success", FALSE, FALSE)
                        /\ UNCHANGED <<pools, acts>>
                   ELSE IF UpgradeWanted(name, pools[name])
                   THEN /\ pools' = [pools EXCEPT ![name].state = "UpgradingNodeImageVersion"]
                        /\ Did("upgradeNodeImage")
                        /\ next
                   ELSE next /\ UNCHANGED <<pools, acts>>
              [] f = "begin" ->
                   /\ UpgradeGateOpen(name)
                   /\ pools[name].state # "UpgradingNodeImageVersion"
                   /\ UpgradeWanted(name, pools[name])
                   /\ Return("Error", TRUE, TRUE)
                   /\ UNCHANGED <<pools, acts>>
    /\ UNCHANGED <<selector, nodes, pods, jobs, agents, cm, fnOut>>

\* ------------------------ Reconcile, lines 217-241: restore and uncordon
\* json.Unmarshal succeeds: every member of the object has its value.
JsonOk(scalingData) == \A i \in DOMAIN scalingData : Len(scalingData[i]) = 2

\* The update is submitted whether or not the live profile is the
\* recorded one.
SetDefaultScaling_AlwaysWrite(nodepool, scalingData) ==
    LET cfg == ParseScaling(scalingData)
    IN IF nodepool.state # "Succeeded"
       THEN [kind |-> "busy", body |-> nodepool]
       ELSE IF ~JsonOk(scalingData)
       THEN [kind |-> "invalid", body |-> nodepool]
       ELSE IF "MinCount" \in DOMAIN cfg /\ "MaxCount" \in DOMAIN cfg
       THEN [kind |-> "write",
             body |-> [nodepool EXCEPT !.auto = TRUE,
                                       !.min = Ptr(cfg["MinCount"]),
                                       !.max = Ptr(cfg["MaxCount"])]]
       ELSE IF "Count" \in DOMAIN cfg
       THEN [kind |-> "write",
             body |-> [nodepool EXCEPT !.auto = FALSE, !.count = cfg["Count"]]]
       ELSE [kind |-> "write", body |-> nodepool]

\* NodePoolController.SetDefaultScaling up to the Begin call: "busy" when
\* the pool is not Succeeded, "invalid" when the recorded value cannot be
\* parsed, "noop" when the live profile is the recorded one, otherwise
\* the request body it writes.
SetDefaultScaling(nodepool, scalingData) ==
    LET cfg == ParseScaling(scalingData)
        hasMinCount == "MinCount" \in DOMAIN cfg
        hasMaxCount == "MaxCount" \in DOMAIN cfg
        hasCount == "Count" \in DOMAIN cfg
    IN IF nodepool.state # "Succeeded"
       THEN [kind |-> "busy", body |-> nodepool]
       ELSE IF ~JsonOk(scalingData)
       THEN [kind |-> "invalid", body |-> nodepool]
       ELSE IF hasMinCount /\ hasMaxCount
       THEN IF /\ nodepool.auto
               /\ nodepool.min = Ptr(cfg["MinCount"])
               /\ nodepool.max = Ptr(cfg["MaxCount"])
            THEN [kind |-> "noop", body |-> nodepool]
            ELSE [kind |-> "write",
                  body |-> [nodepool EXCEPT !.auto = TRUE,
                                            !.min = Ptr(cfg["MinCount"]),
                                            !.max = Ptr(cfg["MaxCount"])]]
       ELSE IF hasCount
       THEN IF ~nodepool.auto /\ nodepool.count = cfg["Count"]
            THEN [kind |-> "noop", body |-> nodepool]
            ELSE [kind |-> "write",
                  body |-> [nodepool EXCEPT !.auto = FALSE, !.count = cfg["Count"]]]
       ELSE [kind |-> "write", body |-> nodepool]

\* NodePoolController.SetDefaultScaling as a whole, for the answer resp
\* of the control plane to BeginCreateOrUpdate: whether the update was
\* submitted, with which body, and whether an error is returned.
SetDefaultScalingCall(nodepool, scalingData, resp) ==
    LET plan == SetDefaultScaling(nodepool, scalingData)
    IN [submitted |-> plan.kind = "write",
        body |-> plan.body,
        err |-> \/ plan.kind \in {"busy", "invalid"}
                \/ plan.kind = "write" /\ resp = "error"]

\* Reconcile, lines 227-233: the delay returned when SetDefaultScaling
\* returned an error, by the state of the pool read before the call.
RestoreError(nodepool) ==
    IF nodepool.state = "Updating" THEN "Success" ELSE "Error"

RestoreStep ==
    /\ pc = "restore"
    /\ IF loc.rtodo = {}
       THEN /\ IF NothingOutdated(loc)
               THEN Goto("teardown") /\ UNCHANGED loc
               ELSE Return("Success", FALSE, FALSE)
            /\ UNCHANGED <<pools, nodes, acts>>
       ELSE \E p \in loc.rtodo :
            \E r \in {"accepted", "quick", "conflict", "error", "get"} :
            \E k \in 0..Len(NodeSeqOfPool(p)) :
              LET plan == SetDefaultScaling(pools[p], loc.configMapData[p])
                  written == plan.kind = "write" /\ r \in {"accepted", "quick"}
                  uncordon ==
                      \* line 238: the error of the uncordon is dropped
                      /\ nodes' = CordonNodes(p, k, FALSE)
                      /\ acts' = acts \cup (IF written THEN {"setScaling"} ELSE {})
                                      \cup CordonActs(k, FALSE)
                      /\ loc' = [loc EXCEPT !.rtodo = @ \ {p}]
                      /\ pc' = "restore"
                      /\ failed' = (failed \/ k < Len(NodeSeqOfPool(p)))
                      /\ UNCHANGED ret
                  stop(after, err, isFailure) ==
                      /\ k = 0
                      /\ Return(after, err, isFailure)
                      /\ UNCHANGED <<pools, nodes, acts>>
                  failure(after) == stop(after, after = "Error", after = "Error")
              IN CASE r = "get" -> stop("Error", TRUE, TRUE)
                   [] r # "get" /\ plan.kind \in {"busy", "invalid"} ->
                        /\ r = "accepted"
                        /\ failure(RestoreError(pools[p]))
                   [] r # "get" /\ plan.kind = "noop" ->
                        /\ r = "accepted"
                        /\ uncordon /\ UNCHANGED pools
                   [] r # "get" /\ plan.kind = "write" ->
                        CASE r \in {"accepted", "quick"} ->
                               /\ pools' = [pools EXCEPT ![p] =
                                     PoolAfterUpdate(pools[p], plan.body, r = "quick")]
                               /\ uncordon
                          [] r = "conflict" -> uncordon /\ UNCHANGED pools
                          [] r = "error" -> failure(RestoreError(pools[p]))
    /\ UNCHANGED <<selector, pods, jobs, agents, cm, fnOut>>

\* --------------- Reconcile, lines 243-299: the temporary pool is removed
Teardown ==
    /\ pc = "teardown"
    /\ \E ok \in BOOLEAN :
         IF ok /\ pools[TmpPool].exists
         THEN /\ loc' = [loc EXCEPT !.mode = "tmp255",
                                    !.evPools = TmpPool :> pools[TmpPool],
                                    !.todo = {TmpPool}]
              /\ Goto("disable")
         ELSE Return("Error", TRUE, TRUE)
    /\ UNCHANGED <<selector, world, acts, fnOut>>

Tremove ==
    /\ pc = "tremove"
    /\ \E f \in {"ok", "has", "remove", "delete"} :
         IF f = "has"
         THEN /\ Return("Error", TRUE, TRUE)
              /\ UNCHANGED <<pools, cm, acts>>
         ELSE IF HasRunningStatefulPods(loc.tmpNodes, Namespaces)
         THEN /\ f = "ok"
              /\ Return("Success", FALSE, FALSE)
              /\ UNCHANGED <<pools, cm, acts>>
         ELSE IF f = "remove"
         THEN /\ Return("Error", FALSE, TRUE)
              /\ UNCHANGED <<pools, cm, acts>>
         ELSE LET del == DeleteConfigMapCall(cm, f = "delete")
              IN /\ pools' = [pools EXCEPT ![TmpPool].state = "Deleting"]
                 /\ IF ~del.err
                    THEN /\ cm' = del.cm
                         /\ acts' = acts \cup {"deletePool"}
                                         \cup (IF cm.exists THEN {"deleteConfigMap"} ELSE {})
                         /\ Return("Success", FALSE, FALSE)
                    ELSE /\ Did("deletePool")
                         /\ Return("Error", TRUE, TRUE)
                         /\ UNCHANGED cm
    /\ UNCHANGED <<selector, nodes, pods, jobs, agents, fnOut>>

\* The pass has returned; the framework requeues the campaign.
Finish ==
    /\ pc = "done"
    /\ pc' = "idle"
    /\ UNCHANGED loc
    /\ ret' = NoResult
    /\ acts' = {}
    /\ failed' = FALSE
    /\ UNCHANGED <<selector, world, fnOut>>

\* The operator process dies and restarts with no memory of the pass.
Crash ==
    /\ pc \notin {"idle", "done"}
    /\ pc' = "idle"
    /\ loc' = LocInit
    /\ ret' = NoResult
    /\ acts' = {}
    /\ failed' = FALSE
    /\ UNCHANGED <<selector, world, fnOut>>

\* ------------------------------------------------------ the whole system
Init ==
    /\ selector \in CampaignSelectors
    /\ pools = [p \in PoolNames |->
                  CASE p = "p1" -> Pool(TRUE, "User", "Succeeded", TRUE, Ptr(1), Ptr(3), 1, 1)
                    [] p = "p2" -> Pool(TRUE, "User", "Succeeded", FALSE, NilPtr, NilPtr, 2, 1)
                    [] p = "base" -> Pool(TRUE, "User", "Succeeded", TRUE, Ptr(1), Ptr(3), 1, 1)
                    [] OTHER -> NoPool]
    /\ nodes = [n \in NodeNames |->
                  CASE n = "n1" -> Node("p1", 1, FALSE, TRUE)
                    [] n = "n2" -> Node("p2", 1, FALSE, TRUE)
                    [] OTHER -> Node(TmpPool, 1, FALSE, FALSE)]
    /\ pods = [x \in PodNames |->
                  CASE x = "a" -> Pod(FALSE, "ns1", "", "Running", EmptyMap, BusyLog, TRUE,
                                      JobRef("a"))
                    [] x = "b" -> Pod(TRUE, "ns1", "n2", "Running", [k \in {"k1"} |-> "done"],
                                      IdleLog, TRUE, JobRef("b"))
                    [] x = "c" -> Pod(TRUE, "other", "n1", "Running", EmptyMap, IdleLog, TRUE,
                                      JobRef("c"))
                    [] OTHER -> Pod(TRUE, "ns1", "n2", "Succeeded", EmptyMap, IdleLog, TRUE,
                                    JobRef("d"))]
    /\ jobs = {"b", "c", "d"}
    /\ agents = [x \in PodNames |-> IF x \in {"b", "c", "d"} THEN "enabled" ELSE "none"]
    /\ cm = NoConfigMap
    /\ pc = "idle"
    /\ loc = LocInit
    /\ ret = NoResult
    /\ acts = {}
    /\ failed = FALSE
    /\ fnOut = NoOut

Environment ==
    \/ \E p \in PoolNames : CompleteOp(p)
    \/ Drift
    \/ \E x \in PodNames, n \in NodeNames : Schedule(x, n)
    \/ \E x \in PodNames : GoIdle(x)

Reconcile ==
    \/ BeginPass
    \/ Surge
    \/ Record
    \/ DisableStep
    \/ DrainStep
    \/ EvictStep
    \/ UpgradeStep
    \/ RestoreStep
    \/ Teardown
    \/ Tremove
    \/ Finish

Next == Reconcile \/ Environment \/ Crash

Spec == Init /\ [][Next]_vars

\* ------------------------------ GetSafeToEvictPods as a function of its input
\* The pods the selection is tried on: any namespace, phase, labels and log.
InputPods ==
    { Pod(TRUE, ns, "n1", phase, labels, logs, TRUE, JobRef("a")) :
        ns \in {"ns1", "other"},
        phase \in {"Running", "Pending", "Succeeded"},
        labels \in { EmptyMap, [k \in {"k1"} |-> "done"], [k \in {"k1"} |-> "todo"],
                     [k \in {"k1", "k2"} |-> "done"] },
        logs \in { <<>>, BusyLog, IdleLog } }

\* One call of PodController.GetSafeToEvictPods on a pod list holding the
\* input pod under name a.
ApplySelect ==
    /\ ~fnOut.applied
    /\ pc = "idle"
    /\ \E logFails \in SUBSET {"a"} :
         fnOut' = [applied |-> TRUE, logFails |-> logFails,
                   out |-> GetSafeToEvictPods(pods, PodOrder, SafeEvictSpec, logFails)]
    /\ UNCHANGED <<selector, world, pc, loc, ret, acts, failed>>

NextFn == ApplySelect

InitFn ==
    /\ selector \in Selectors
    /\ pools = [p \in PoolNames |-> NoPool]
    /\ nodes = [n \in NodeNames |-> Node("p1", 1, FALSE, n = "n1")]
    /\ \E p \in InputPods :
         pods = [x \in PodNames |-> IF x = "a" THEN p ELSE AbsentPod(p)]
    /\ jobs = {"a"}
    /\ agents = [x \in PodNames |-> IF x = "a" THEN "enabled" ELSE "none"]
    /\ cm = NoConfigMap
    /\ pc = "idle"
    /\ loc = LocInit
    /\ ret = NoResult
    /\ acts = {}
    /\ failed = FALSE
    /\ fnOut = NoOut

SpecFn == InitFn /\ [][NextFn]_vars

\* ---------------------------- the names a campaign derives from its spec
\* Go strings as sequences of one-character strings.
TmpPrefix == <<"t", "m", "p">>
BaseNameLimit == 9

\* SafeEvict.GetConfigmapName: "tmp" + the name of the resource.
GetConfigmapName(s) == TmpPrefix \o s.name

\* The base pool's name is appended whole.
GetTemporaryNodepoolName_Whole(s) == TmpPrefix \o s.base

\* SafeEvict.GetTemporaryNodepoolName: "tmp" + the first nine characters of
\* the base pool's name.
GetTemporaryNodepoolName(s) ==
    IF Len(s.base) > BaseNameLimit
    THEN TmpPrefix \o SubSeq(s.base, 1, BaseNameLimit)
    ELSE TmpPrefix \o s.base

\* The SafeEvict resources tried: name, namespace and base pool.
Campaigns ==
    [name : { <<"c", "1">>, <<"c", "2">> },
     ns : {"ns1", "ns2"},
     base : { <<"b", "a", "s", "e">>, <<"w", "o", "r", "k">>,
              <<"w", "o", "r", "k", "e", "r", "p", "o", "l", "1">>,
              <<"w", "o", "r", "k", "e", "r", "p", "o", "l", "2">> }]

\* The objects a pass of the campaign creates and deletes: its surge pool
\* (lines 125 and 285) and its record (lines 154, 116 and 292).
WrittenBy(s) ==
    [pool |-> GetTemporaryNodepoolName(s),
     record |-> <<s.ns, GetConfigmapName(s)>>]

\* The names of two campaigns are derived.
ApplyNames ==
    /\ ~fnOut.applied
    /\ fnOut' = [fnOut EXCEPT !.applied = TRUE,
                              !.out = <<WrittenBy(fnOut.a), WrittenBy(fnOut.b)>>]
    /\ UNCHANGED <<selector, world, pc, loc, ret, acts, failed>>

NextNames == ApplyNames

InitNames ==
    /\ selector = EmptyMap
    /\ pools = [p \in PoolNames |-> NoPool]
    /\ nodes = [n \in NodeNames |-> Node("p1", 1, FALSE, FALSE)]
    /\ pods = [x \in PodNames |->
                 Pod(FALSE, "ns1", "", "Running", EmptyMap, BusyLog, TRUE, JobRef(x))]
    /\ jobs = {}
    /\ agents = [x \in PodNames |-> "none"]
    /\ cm = NoConfigMap
    /\ pc = "idle"
    /\ loc = LocInit
    /\ ret = NoResult
    /\ acts = {}
    /\ failed = FALSE
    /\ \E a, b \in Campaigns : fnOut = [applied |-> FALSE, a |-> a, b |-> b, out |-> <<>>]

SpecNames == InitNames /\ [][NextNames]_vars

\* -------------------------------------- the campaign left to run its course
\* Every pod carries too few labels to count as done, no call fails or is
\* refused and no further workload arrives; passes keep running and pool
\* operations finish.
InitLive ==
    /\ Init
    /\ selector = [k \in {"k1", "k2"} |-> "done"]

CompleteOps == \E p \in PoolNames : CompleteOp(p)

\* An update request of the step is answered with 409 only for a pool that
\* is busy: otherwise DisableAutoScaling goes through all its pools, and a
\* restore that has to write does.
NoConflict ==
    /\ (pc = "disable" /\ loc.todo # {} /\ pc' # "disable")
         => \E p \in loc.todo : /\ ~DisableSkips(loc.evPools[p])
                                /\ pools[p].state # "Succeeded"
    /\ pc = "restore" =>
         \A p \in loc.rtodo \ loc'.rtodo :
            SetDefaultScaling(pools[p], loc.configMapData[p]).kind = "write"
               => pools'[p] # pools[p]

Calm == ~failed' /\ NoConflict

NextLive == (Reconcile \/ CompleteOps \/ Drift) /\ Calm

SpecLive ==
    /\ InitLive
    /\ [][NextLive]_vars
    /\ WF_vars(Reconcile /\ Calm)
    /\ \A p \in PoolNames : SF_vars(CompleteOp(p))

\* --------------------------------- pods with other owners than one Job
\* The owner references tried on pod b: its Job, none, a ReplicaSet only,
\* a ReplicaSet followed by the Job written in lower case, and two Jobs of
\* which the first is written in upper case.
OwnerRefLists ==
    { JobRef("b"),
      << >>,
      << [kind |-> "ReplicaSet", name |-> "rs"] >>,
      << [kind |-> "ReplicaSet", name |-> "rs"], [kind |-> "job", name |-> "b"] >>,
      << [kind |-> "JOB", name |-> "b"], [kind |-> "Job", name |-> "c"] >> }

\* A newer image is out for the monitored pools, and pod b, idle on the
\* outdated pool p2, has any of the owner reference lists.
InitJob ==
    /\ selector = [k \in {"k1", "k2"} |-> "done"]
    /\ pools = [p \in PoolNames |->
                  CASE p = "p1" -> Pool(TRUE, "User", "Succeeded", TRUE, Ptr(1), Ptr(3), 1, 2)
                    [] p = "p2" -> Pool(TRUE, "User", "Succeeded", FALSE, NilPtr, NilPtr, 2, 2)
                    [] p = "base" -> Pool(TRUE, "User", "Succeeded", TRUE, Ptr(1), Ptr(3), 1, 1)
                    [] OTHER -> NoPool]
    /\ nodes = [n \in NodeNames |->
                  CASE n = "n1" -> Node("p1", 1, FALSE, TRUE)
                    [] n = "n2" -> Node("p2", 1, FALSE, TRUE)
                    [] OTHER -> Node(TmpPool, 1, FALSE, FALSE)]
    /\ \E refs \in OwnerRefLists :
         pods = [x \in PodNames |->
                   CASE x = "a" -> Pod(FALSE, "ns1", "", "Running", EmptyMap, BusyLog, TRUE,
                                       JobRef("a"))
                     [] x = "b" -> Pod(TRUE, "ns1", "n2", "Running", [k \in {"k1"} |-> "done"],
                                       IdleLog, TRUE, refs)
                     [] x = "c" -> Pod(TRUE, "other", "n1", "Running", EmptyMap, IdleLog, TRUE,
                                       JobRef("c"))
                     [] OTHER -> Pod(TRUE, "ns1", "n2", "Succeeded", EmptyMap, IdleLog, TRUE,
                                     JobRef("d"))]
    /\ jobs = {"b", "c", "d"}
    /\ agents = [x \in PodNames |-> IF x \in {"b", "c", "d"} THEN "enabled" ELSE "none"]
    /\ cm = NoConfigMap
    /\ pc = "idle"
    /\ loc = LocInit
    /\ ret = NoResult
    /\ acts = {}
    /\ failed = FALSE
    /\ fnOut = NoOut

NextJob == Reconcile \/ CompleteOps

SpecJob == InitJob /\ [][NextJob]_vars

\* ------------------------------------- the restore on varied records
\* The values tried for pool p1 in the record: both well-formed shapes,
\* an object that cannot be parsed ({"Count":}), the empty object and an
\* object with MinCount alone.
ScalingDatas ==
    { << <<"MinCount", 1>>, <<"MaxCount", 3>> >>,
      << <<"Count", 1>> >>,
      << <<"Count">> >>,
      << >>,
      << <<"MinCount", 1>> >> }

\* The live scaling profiles tried for pool p1: auto, min, max, count.
LiveScalings ==
    { <<TRUE, Ptr(1), Ptr(3), 1>>, <<FALSE, Ptr(1), Ptr(3), 1>>,
      <<TRUE, Ptr(1), Ptr(2), 1>>, <<FALSE, NilPtr, NilPtr, 1>>,
      <<FALSE, NilPtr, NilPtr, 2>> }

\* In the middle of a campaign: p1 is upgraded and in the record, p2 is
\* still outdated with the idle pod b on it, the surge pool is ready.
InitRestore ==
    /\ selector = [k \in {"k1", "k2"} |-> "done"]
    /\ \E live \in LiveScalings :
         pools = [p \in PoolNames |->
                    CASE p = "p1" -> Pool(TRUE, "User", "Succeeded",
                                          live[1], live[2], live[3], live[4], 2)
                      [] p = "p2" -> Pool(TRUE, "User", "Succeeded", FALSE, NilPtr, NilPtr, 2, 2)
                      [] p = "base" -> Pool(TRUE, "User", "Succeeded", TRUE, Ptr(1), Ptr(3), 1, 2)
                      [] OTHER -> Pool(TRUE, "User", "Succeeded", TRUE, Ptr(1), Ptr(3), 1, 2)]
    /\ nodes = [n \in NodeNames |->
                  CASE n = "n1" -> Node("p1", 2, TRUE, TRUE)
                    [] n = "n2" -> Node("p2", 1, FALSE, TRUE)
                    [] OTHER -> Node(TmpPool, 2, FALSE, TRUE)]
    /\ pods = [x \in PodNames |->
                 CASE x = "a" -> Pod(FALSE, "ns1", "", "Running", EmptyMap, BusyLog, TRUE,
                                     JobRef("a"))
                   [] x = "b" -> Pod(TRUE, "ns1", "n2", "Running", [k \in {"k1"} |-> "done"],
                                     IdleLog, TRUE, JobRef("b"))
                   [] x = "c" -> Pod(TRUE, "other", "n1", "Running", EmptyMap, IdleLog, TRUE,
                                     JobRef("c"))
                   [] OTHER -> Pod(TRUE, "ns1", "n2", "Succeeded", EmptyMap, IdleLog, TRUE,
                                   JobRef("d"))]
    /\ jobs = {"b", "c", "d"}
    /\ agents = [x \in PodNames |-> IF x \in {"b", "c", "d"} THEN "enabled" ELSE "none"]
    /\ \E d \in ScalingDatas :
         cm = [exists |-> TRUE,
               data |-> [p \in {"p1", "p2"} |->
                           IF p = "p1" THEN d ELSE << <<"Count", 2>> >>]]
    /\ pc = "idle"
    /\ loc = LocInit
    /\ ret = NoResult
    /\ acts = {}
    /\ failed = FALSE
    /\ fnOut = NoOut

\* Another client of the control plane starts an operation on a pool the
\* pass is about to restore.
Interfere(p) ==
    /\ pc = "restore"
    /\ p \in loc.rtodo
    /\ pools[p].state = "Succeeded"
    /\ \E st \in {"Updating", "UpgradingNodeImageVersion"} :
         pools' = [pools EXCEPT ![p].state = st]
    /\ UNCHANGED <<selector, nodes, pods, jobs, agents, cm, pc, loc, ret, acts, failed, fnOut>>

NextRestore == Reconcile \/ CompleteOps \/ \E p \in PoolNames : Interfere(p)

SpecRestore == InitRestore /\ [][NextRestore]_vars

\* ------------------------------------- SetDefaultScaling on its own
\* The provisioning states tried for the pool handed to SetDefaultScaling.
ScalingStates == {"Succeeded", "Updating", "Failed"}

\* The answers of the control plane to the update.
ScalingResponses == {"accepted", "quick", "conflict", "error"}

InitScale ==
    /\ selector = [k \in {"k1"} |-> "done"]
    /\ \E live \in LiveScalings, st \in ScalingStates :
         pools = [p \in PoolNames |->
                    IF p = "p1"
                    THEN Pool(TRUE, "User", st, live[1], live[2], live[3], live[4], 1)
                    ELSE NoPool]
    /\ nodes = [n \in NodeNames |-> Node("p1", 1, FALSE, TRUE)]
    /\ pods = [x \in PodNames |->
                 Pod(FALSE, "ns1", "", "Running", EmptyMap, BusyLog, TRUE, JobRef(x))]
    /\ jobs = {}
    /\ agents = [x \in PodNames |-> "none"]
    /\ \E d \in ScalingDatas : cm = [exists |-> TRUE, data |-> [p \in {"p1"} |-> d]]
    /\ pc = "idle"
    /\ loc = LocInit
    /\ ret = NoResult
    /\ acts = {}
    /\ failed = FALSE
    /\ \E r \in ScalingResponses :
         fnOut = [applied |-> FALSE, resp |-> r, pool |-> pools["p1"],
                  submitted |-> FALSE, body |-> pools["p1"], err |-> FALSE]

\* SetDefaultScaling applied to pool p1 and its recorded value.
ApplySetDefaultScaling ==
    /\ ~fnOut.applied
    /\ LET call == SetDefaultScalingCall(pools["p1"], cm.data["p1"], fnOut.resp)
       IN /\ fnOut' = [fnOut EXCEPT !.applied = TRUE, !.submitted = call.submitted,
                                    !.body = call.body, !.err = call.err]
          /\ pools' = IF call.submitted /\ fnOut.resp \in {"accepted", "quick"}
                      THEN [pools EXCEPT !["p1"] =
                              PoolAfterUpdate(pools["p1"], call.body, fnOut.resp = "quick")]
                      ELSE pools
    /\ UNCHANGED <<selector, nodes, pods, jobs, agents, cm, pc, loc, ret, acts, failed>>

NextScale == ApplySetDefaultScaling

SpecScale == InitScale /\ [][NextScale]_vars

\* --------------------------------- the cluster after a finished campaign
\* A campaign has just ended: the monitored pools are up to date and have
\* their scaling back, the record is deleted, the removal of the surge
\* pool is submitted and its node is still there, cordoned.
InitAgain ==
    /\ selector \in CampaignSelectors
    /\ pools = [p \in PoolNames |->
                  CASE p = "p1" -> Pool(TRUE, "User", "Succeeded", TRUE, Ptr(1), Ptr(3), 1, 1)
                    [] p = "p2" -> Pool(TRUE, "User", "Succeeded", FALSE, NilPtr, NilPtr, 2, 1)
                    [] p = "base" -> Pool(TRUE, "User", "Succeeded", TRUE, Ptr(1), Ptr(3), 1, 1)
                    [] OTHER -> Pool(TRUE, "User", "Deleting", FALSE, Ptr(1), Ptr(3), 1, 1)]
    /\ nodes = [n \in NodeNames |->
                  CASE n = "n1" -> Node("p1", 1, FALSE, TRUE)
                    [] n = "n2" -> Node("p2", 1, FALSE, TRUE)
                    [] OTHER -> Node(TmpPool, 1, TRUE, TRUE)]
    /\ pods = [x \in PodNames |->
                  CASE x = "a" -> Pod(FALSE, "ns1", "", "Running", EmptyMap, BusyLog, TRUE,
                                      JobRef("a"))
                    [] x = "b" -> Pod(TRUE, "ns1", "n2", "Running", [k \in {"k1"} |-> "done"],
                                      IdleLog, TRUE, JobRef("b"))
                    [] x = "c" -> Pod(TRUE, "other", "n1", "Running", EmptyMap, IdleLog, TRUE,
                                      JobRef("c"))
                    [] OTHER -> Pod(TRUE, "ns1", "n2", "Succeeded", EmptyMap, IdleLog, TRUE,
                                    JobRef("d"))]
    /\ jobs = {"b", "c", "d"}
    /\ agents = [x \in PodNames |-> IF x \in {"b", "c", "d"} THEN "enabled" ELSE "none"]
    /\ cm = NoConfigMap
    /\ pc = "idle"
    /\ loc = LocInit
    /\ ret = NoResult
    /\ acts = {}
    /\ failed = FALSE
    /\ fnOut = NoOut

SpecAgain == InitAgain /\ [][Next]_vars

\* ------------------------------------- filterPodsOnNodes on its own
\* The pod lists handed to filterPodsOnNodes: empty, every pod once, and
\* lists that name a pod twice.
PodLists ==
    { <<>>, <<"a", "b", "c", "d">>, <<"b", "b", "a">>, <<"d", "c", "a", "a">> }

\* The node lists handed to filterPodsOnNodes.
NodeSets == { {}, {"n1"}, {"n2", "t1"} }

InitFilter ==
    /\ selector = [k \in {"k1"} |-> "done"]
    /\ pools = [p \in PoolNames |-> NoPool]
    /\ nodes = [n \in NodeNames |-> Node("p1", 1, FALSE, TRUE)]
    /\ \E at \in [PodNames -> {"", "n1", "n2"}] :
         pods = [x \in PodNames |->
                   Pod(TRUE, "ns1", at[x], "Running", EmptyMap, IdleLog, TRUE, JobRef(x))]
    /\ jobs = PodNames
    /\ agents = [x \in PodNames |-> "enabled"]
    /\ cm = NoConfigMap
    /\ pc = "idle"
    /\ loc = LocInit
    /\ ret = NoResult
    /\ acts = {}
    /\ failed = FALSE
    /\ \E l \in PodLists, ns \in NodeSets :
         fnOut = [applied |-> FALSE, list |-> l, nodes |-> ns, out |-> <<>>]

\* One call of filterPodsOnNodes.
ApplyFilter ==
    /\ ~fnOut.applied
    /\ fnOut' = [fnOut EXCEPT !.applied = TRUE,
                              !.out = filterPodsOnNodes(pods, fnOut.list, fnOut.nodes)]
    /\ UNCHANGED <<selector, world, pc, loc, ret, acts, failed>>

NextFilter == ApplyFilter

SpecFilter == InitFilter /\ [][NextFilter]_vars

\* ------------------------------- the campaign with a pool without nodes
\* The monitored pool p2 is scaled to zero: it exists and no node carries
\* its label.  Node n2 is a node of the base pool, which is not monitored
\* and for which a newer image is out as well; pods b and d run on it.
InitEmpty ==
    /\ selector \in CampaignSelectors
    /\ pools = [p \in PoolNames |->
                  CASE p = "p1" -> Pool(TRUE, "User", "Succeeded", TRUE, Ptr(1), Ptr(3), 1, 1)
                    [] p = "p2" -> Pool(TRUE, "User", "Succeeded", FALSE, NilPtr, NilPtr, 0, 1)
                    [] p = "base" -> Pool(TRUE, "User", "Succeeded", TRUE, Ptr(1), Ptr(3), 1, 2)
                    [] OTHER -> NoPool]
    /\ nodes = [n \in NodeNames |->
                  CASE n = "n1" -> Node("p1", 1, FALSE, TRUE)
                    [] n = "n2" -> Node(BaseForBackupPool, 1, FALSE, TRUE)
                    [] OTHER -> Node(TmpPool, 1, FALSE, FALSE)]
    /\ pods = [x \in PodNames |->
                  CASE x = "a" -> Pod(FALSE, "ns1", "", "Running", EmptyMap, BusyLog, TRUE,
                                      JobRef("a"))
                    [] x = "b" -> Pod(TRUE, "ns1", "n2", "Running", [k \in {"k1"} |-> "done"],
                                      IdleLog, TRUE, JobRef("b"))
                    [] x = "c" -> Pod(TRUE, "other", "n1", "Running", EmptyMap, IdleLog, TRUE,
                                      JobRef("c"))
                    [] OTHER -> Pod(TRUE, "ns1", "n2", "Succeeded", EmptyMap, IdleLog, TRUE,
                                    JobRef("d"))]
    /\ jobs = {"b", "c", "d"}
    /\ agents = [x \in PodNames |-> IF x \in {"b", "c", "d"} THEN "enabled" ELSE "none"]
    /\ cm = NoConfigMap
    /\ pc = "idle"
    /\ loc = LocInit
    /\ ret = NoResult
    /\ acts = {}
    /\ failed = FALSE
    /\ fnOut = NoOut

SpecEmpty == InitEmpty /\ [][Next]_vars

\* ------------------------------------- the campaign with process crashes
\* As before, and the process may die at any point of a pass and is
\* started again; at some point it stops dying.
NextCrash == NextLive \/ Crash

SpecCrash ==
    /\ InitLive
    /\ [][NextCrash]_vars
    /\ WF_vars(Reconcile /\ Calm)
    /\ \A p \in PoolNames : SF_vars(CompleteOp(p))
    /\ <>[][~Crash]_vars

\* ------------------------------------- the staleness check on its own
\* The clusters the check of lines 73-110 is tried on: node n2 belongs to
\* either monitored pool (so a pool may have two nodes of different
\* versions, or no labelled node at all), and every monitored pool is in
\* any provisioning state and has any latest version.
InitObs ==
    /\ selector \in CampaignSelectors
    /\ \E st1, st2 \in {"Succeeded", "Updating", "UpgradingNodeImageVersion"},
          l1, l2 \in 1..MaxVersion :
         pools = [p \in PoolNames |->
                    CASE p = "p1" -> Pool(TRUE, "User", st1, TRUE, Ptr(1), Ptr(3), 1, l1)
                      [] p = "p2" -> Pool(TRUE, "User", st2, FALSE, NilPtr, NilPtr, 2, l2)
                      [] p = "base" -> Pool(TRUE, "User", "Succeeded", TRUE, Ptr(1), Ptr(3), 1, 1)
                      [] OTHER -> NoPool]
    /\ \E home \in Range(Nodepools), v1, v2 \in 1..MaxVersion :
         nodes = [n \in NodeNames |->
                    CASE n = "n1" -> Node("p1", v1, FALSE, TRUE)
                      [] n = "n2" -> Node(home, v2, FALSE, TRUE)
                      [] OTHER -> Node(TmpPool, 1, FALSE, FALSE)]
    /\ pods = [x \in PodNames |->
                 Pod(FALSE, "ns1", "", "Running", EmptyMap, BusyLog, TRUE, JobRef(x))]
    /\ jobs = {}
    /\ agents = [x \in PodNames |-> "none"]
    /\ cm = NoConfigMap
    /\ pc = "idle"
    /\ loc = LocInit
    /\ ret = NoResult
    /\ acts = {}
    /\ failed = FALSE
    /\ fnOut = NoOut

NextObs == BeginPass

SpecObs == InitObs /\ [][NextObs]_vars

\* ------------------------------------------------------------- properties
\* strings.HasSuffix(logs, line) for some configured sentinel line.
EndsWithSentinel(logs) ==
    \E i \in DOMAIN LastLogLines : HasSuffix(logs, LastLogLines[i])

\* The pod carries every entry of the label selector (it is "done").
SatisfiesDone(labels) ==
    \A k \in DOMAIN selector : LabelOf(labels, k) = selector[k]

\* What a fresh staleness check would report right now.
NothingOutdatedNow ==
    /\ UpdateNeeded(Nodepools).nodes = {}
    /\ DOMAIN UpdateNeeded(Nodepools).pools = {}
    /\ DOMAIN GetNotReadyNodePools(Nodepools) = {}

\* Pod x qualifies for eviction by the running pass.
SafelySelected(x) ==
    /\ Contains(Namespaces, pods[x].ns)
    /\ pods[x].phase = "Running"
    /\ ~SatisfiesDone(pods[x].labels)
    /\ EndsWithSentinel(pods[x].logs)
    /\ pods[x].node \in NodeNames
    /\ IF loc.mode = "main"
       THEN nodes[pods[x].node].pool \in DOMAIN loc.outdatedNodePools
       ELSE NothingOutdated(loc) /\ nodes[pods[x].node].pool = TmpPool

C2_UpgradeGate ==
    [][\A p \in Range(Nodepools) :
          /\ (/\ pc # "idle"
              /\ pools[p].state # "UpgradingNodeImageVersion"
              /\ pools'[p].state = "UpgradingNodeImageVersion")
             => ~HasRunningStatefulPods(GetNodesByNodePool(p), Namespaces)
          /\ (/\ pc = "upgrade" /\ pc' \in {"upgrade", "restore"}
              /\ Nodepools[loc.idx] = p
              /\ HasRunningStatefulPods(GetNodesByNodePool(p), Namespaces))
             => /\ pools' = pools
                /\ nodes' = nodes
                /\ p \in DOMAIN loc.outdatedNodePools
                     => \A n \in GetNodesByNodePool(p) : nodes[n].unsched]_vars

\* C2: a pass has submitted the image upgrade of pool p1.
C2_Witness ==
    /\ "upgradeNodeImage" \in acts
    /\ pools["p1"].state = "UpgradingNodeImageVersion"

\* C3 (one pool at a time): at most one monitored pool is in the
\* node-image upgrade at any time.
C3_OnePoolAtATime ==
    Cardinality({p \in Range(Nodepools) :
                    pools[p].state = "UpgradingNodeImageVersion"}) <= 1

\* The snapshots Reconcile could hand to CreateConfigMap now.
Snapshots ==
    {ConfigData([p \in S |-> pools[p]]) : S \in SUBSET Range(Nodepools)}

\* C4 (write-once record): CreateConfigMap on an existing record leaves it
\* as it is whatever the snapshot, and no step changes the content of an
\* existing record: it stays or is deleted as a whole.
C4_WriteOnce ==
    /\ [](cm.exists => \A d \in Snapshots : CreateConfigMap(cm, d) = cm)
    /\ [][cm.exists => (cm' = cm \/ cm' = NoConfigMap)]_vars

\* C4: a pass went through the record step with a snapshot that differs
\* from the record it found.
C4_Witness ==
    /\ pc = "disable" /\ loc.mode = "main"
    /\ cm.exists
    /\ "createConfigMap" \notin acts
    /\ ConfigData(loc.outdatedNodePools) # cm.data

\* C5 (restore correctness): when a pass gets past the restore of a pool
\* of the record, the pool has the recorded scaling (autoscaling on with
\* the recorded bounds, or off with the recorded count) and all its nodes
\* are schedulable.
C5_RestoreCorrectness ==
    [][\A p \in PoolNames :
          (/\ pc = "restore" /\ pc' = "restore"
           /\ p \in loc.rtodo /\ p \notin loc'.rtodo)
          => LET cfg == ParseScaling(loc.configMapData[p])
             IN /\ IF "MinCount" \in DOMAIN cfg
                   THEN /\ pools'[p].auto
                        /\ pools'[p].min = Ptr(cfg["MinCount"])
                        /\ pools'[p].max = Ptr(cfg["MaxCount"])
                   ELSE /\ ~pools'[p].auto
                        /\ pools'[p].count = cfg["Count"]
                /\ \A n \in GetNodesByNodePool(p) : ~nodes'[n].unsched]_vars

\* Some monitored pool runs an image older than the latest one.
SomeOutdated == DOMAIN UpdateNeeded(Nodepools).pools # {}

\* The terminal condition of a campaign.
Terminal == NothingOutdatedNow /\ ~pools[TmpPool].exists /\ ~cm.exists

\* C6 (convergence): when passes keep running, calls succeed, pool
\* operations finish and the guarded pods are idle, an outdated pool leads
\* to the terminal condition (nothing outdated, no surge pool, no record),
\* which then lasts until a newer image is released.
C6_Convergence ==
    /\ SomeOutdated ~> Terminal
    /\ [][(Terminal /\ \A p \in Range(Nodepools) : pools'[p].latest = pools[p].latest)
            => Terminal']_vars

\* C7 (requeue classification): a pass returns the long steady-state
\* delay only with nothing outdated, no surge pool and no record left;
\* a pass that hit a failure returns the error delay, and every other pass
\* the progress delay.
C7_RequeueClassification ==
    pc = "done" =>
        /\ ret.after = "Upgrade"
             => NothingOutdatedNow /\ ~pools[TmpPool].exists /\ ~cm.exists
        /\ failed => ret.after = "Error"
        /\ (~failed /\ ret.after # "Upgrade") => ret.after = "Success"

\* C8 (error propagation): the step in which a call of the pass fails
\* returns with the error delay, and nothing is mutated after a failure.
C8_ErrorPropagation ==
    [][/\ (~failed /\ failed') => (pc' = "done" /\ ret'.after = "Error")
       /\ failed => UNCHANGED world]_vars

\* C9 (record deletion): a step deletes the scaling-state record only when
\* nothing is outdated and the surge pool is gone, not merely being
\* deleted.
C9_RecordDeletion ==
    [][(cm.exists /\ ~cm'.exists)
        => (NothingOutdatedNow' /\ ~pools'[TmpPool].exists)]_vars

CurrentVersion(p) ==
    LET vers == getNodeImageVersions(Nodepools)
    IN IF p \in DOMAIN vers THEN vers[p] ELSE 0

\* C11 (staleness detection): after step 1 of a pass the outdated pools
\* are exactly the monitored pools whose current version differs from the
\* latest one or whose provisioning state is not Succeeded, and the
\* outdated nodes are exactly the nodes of the version-mismatched pools,
\* for every monitored pool, one without labelled nodes included.
C11_Staleness ==
    pc = "surge" =>
        LET mismatched == {p \in Range(Nodepools) : CurrentVersion(p) # pools[p].latest}
            notReady == {p \in Range(Nodepools) : pools[p].state # "Succeeded"}
        IN /\ DOMAIN loc.outdatedNodePools = mismatched \cup notReady
           /\ loc.outdatedNodes = UNION {GetNodesByNodePool(p) : p \in mismatched}

\* C12 (eviction order): one call of EvictIdlePods (the steps at evict
\* that the process survives) takes the pods of its list one by one and
\* never touches another pod; the pod is deleted only
\* if in that same call its agent was there and has been removed and its
\* Job has been deleted, the Job only after the agent was removed; and
\* when the pod is not deleted the call reports an error and goes on to
\* no later pod of the list.
C12_EvictionOrder ==
    [][(pc = "evict" /\ pc' # "idle") =>
         LET x == Head(loc.evList)
             removed == agents[x] # "none" /\ agents'[x] = "none"
             severed == x \in jobs /\ x \notin jobs'
             deleted == pods[x].present /\ ~pods'[x].present
         IN /\ \A y \in PodNames \ {x} :
                 /\ pods'[y] = pods[y]
                 /\ agents'[y] = agents[y]
                 /\ (y \in jobs') = (y \in jobs)
            /\ deleted => (removed /\ severed)
            /\ severed => removed
            /\ ~severed => jobs' = jobs
            /\ ~deleted => /\ pods' = pods
                           /\ failed'
                           /\ pc' \notin {"evict", "drain"}
            /\ deleted => (pc' \in {"evict", "drain"} /\ loc'.evList = Tail(loc.evList))]_vars

\* C12: a call stopped at the Job of pod b: the agent is removed, the Job
\* and the pod are still there and the pass returned the error.
C12_Witness ==
    /\ pc = "done" /\ failed /\ ret.err
    /\ acts = {"disableAutoScaling", "cordon", "disableAgent", "removeAgent"}
    /\ agents["b"] = "none" /\ "b" \in jobs /\ pods["b"].present

\* C13 (eviction is repeatable): a pod whose eviction stopped part-way
\* (its agent disabled or removed, or its Job deleted, the pod still
\* there) can be evicted by a later call whose services all respond: no
\* sub-step of that call fails on what is left of the pod.
C13_Repeatable ==
    \A x \in PodNames :
        (pods[x].present /\ (agents[x] # "enabled" \/ x \notin jobs))
            => ForcedStop(x) = 6

\* The scaling the monitored pools had before the campaign touched them,
\* which is what its record holds.
RestoredAsRecorded ==
    /\ pools["p1"].auto /\ pools["p1"].min = Ptr(1) /\ pools["p1"].max = Ptr(3)
    /\ ~pools["p2"].auto /\ pools["p2"].count = 2

\* C14 (crash/restart safety): whatever prefixes of passes the process
\* went through before dying, once it stays up an outdated pool leads to
\* the terminal condition with every pool restored to its recorded
\* scaling.
C14_CrashSafety == SomeOutdated ~> (Terminal /\ RestoredAsRecorded)

\* C15 (DisableAutoScaling): when the call returns success, every pool of
\* its argument that is not a system pool and was seen Succeeded has had
\* its update submitted, the one pool whose update was answered with a
\* conflict counting as done; so at most one such pool is left over.
C15_DisableAutoScaling ==
    [][(/\ pc = "disable"
        /\ \/ pc' = "drain"
           \/ loc.mode = "tmp255" /\ loc'.mode = "tmp")
       => Cardinality({p \in loc.todo : ~DisableSkips(loc.evPools[p])}) <= 1]_vars

\* The live scaling of pool p is the one the record holds for it.
ScalingAsRecorded(p) ==
    LET cfg == ParseScaling(cm.data[p])
    IN IF "MinCount" \in DOMAIN cfg
       THEN /\ pools[p].auto
            /\ pools[p].min = Ptr(cfg["MinCount"])
            /\ pools[p].max = Ptr(cfg["MaxCount"])
       ELSE ~pools[p].auto /\ pools[p].count = cfg["Count"]

\* C16 (conflict loses nothing): a restore answered with a conflict is
\* still there to be applied by a later pass, which reads what to restore
\* from the record: the clean-up deletes the record only when every pool
\* in it has its recorded scaling.
C16_ConflictBenign ==
    [][(pc = "tremove" /\ cm.exists /\ ~cm'.exists)
        => \A p \in DOMAIN cm.data : ScalingAsRecorded(p)]_vars

\* C17 (campaign isolation): two distinct campaigns (resources of different
\* name or namespace) write no common object: their surge pools differ and
\* their records differ, so the clean-up of one never deletes what the
\* other depends on.
C17_Isolation ==
    (/\ fnOut.applied
     /\ <<fnOut.a.ns, fnOut.a.name>> # <<fnOut.b.ns, fnOut.b.name>>)
    => /\ fnOut.out[1].pool # fnOut.out[2].pool
       /\ fnOut.out[1].record # fnOut.out[2].record

\* C18 (idempotent delete): DeleteConfigMap on an absent record succeeds
\* and changes nothing, on an existing record it removes it, a second
\* delete gives the result and the state of the first, and an error of
\* the API other than not-found is returned, the record left as it is.
C18_IdempotentDelete ==
    LET once == DeleteConfigMapCall(cm, FALSE)
        twice == DeleteConfigMapCall(once.cm, FALSE)
    IN /\ ~once.err /\ ~once.cm.exists
       /\ ~cm.exists => once.cm = cm
       /\ twice = once
       /\ DeleteConfigMapCall(cm, TRUE) = [cm |-> cm, err |-> TRUE]

\* C18: a pass in the steady state deleted the record that was not there
\* and returned the long delay.
C18_Witness ==
    /\ pc = "done" /\ ret = Result("Upgrade", FALSE)
    /\ ~cm.exists /\ "deleteConfigMap" \notin acts

\* C19 (surge-pool existence check): the first step of a pass either goes
\* on with NodePoolExists true exactly when the surge pool is there (false
\* when the control plane answers not-found), or returns the error delay
\* having created no surge pool, touched no record and drained nothing.
C19_ExistenceCheck ==
    [][(pc = "idle" /\ pc' # "idle") =>
         /\ pc' = "surge" => (loc'.tmpExists <=> pools[TmpPool].exists)
         /\ pc' # "surge" => /\ pc' = "done" /\ failed'
                             /\ ret'.after = "Error"
                             /\ acts' = {}
                             /\ UNCHANGED world]_vars

\* C19: with pools outdated and no surge pool, a pass returned an error
\* from its first step: nothing was created or written.
C19_Witness ==
    /\ pc = "done" /\ failed /\ ret = Result("Error", TRUE)
    /\ acts = {}
    /\ SomeOutdated /\ ~pools[TmpPool].exists /\ ~cm.exists

\* The name of the first owner reference of kind Job, however the kind is
\* capitalised; "" when there is none.
FirstJobRef(refs) ==
    LET at == {i \in DOMAIN refs : refs[i].kind \in {"Job", "job", "JOB"}}
    IN IF at = {} THEN ""
       ELSE refs[CHOOSE i \in at : \A j \in at : i <= j].name

\* C20 (Job severing): KillJobByPod deletes the Job named by the pod's
\* first owner reference of kind Job (in any capitalisation) and returns
\* success; without such a reference, or when the Delete fails, it returns
\* an error and deletes nothing; and a call of EvictIdlePods deletes a pod
\* only if it deleted that Job, no other, in the same call.
C20_JobSevering ==
    /\ [](\A x \in PodNames :
            LET job == FirstJobRef(pods[x].owner)
            IN /\ (job # "" /\ job \in jobs)
                    => KillJobByPod(pods[x], jobs, FALSE) =
                          [jobs |-> jobs \ {job}, err |-> FALSE]
               /\ (job = "" \/ job \notin jobs)
                    => KillJobByPod(pods[x], jobs, FALSE) = [jobs |-> jobs, err |-> TRUE]
               /\ KillJobByPod(pods[x], jobs, TRUE) = [jobs |-> jobs, err |-> TRUE])
    /\ [][(pc = "evict" /\ pc' # "idle") =>
            LET x == Head(loc.evList)
                job == FirstJobRef(pods[x].owner)
            IN /\ jobs' # jobs => (job # "" /\ jobs' = jobs \ {job})
               /\ (pods[x].present /\ ~pods'[x].present) => jobs' # jobs
               /\ jobs' = jobs => (pods' = pods /\ failed')]_vars

\* C20: the eviction of pod b, owned by a ReplicaSet only, stopped at
\* KillJobByPod: the agent is removed, no Job and no pod is deleted and
\* the pass returned the error.
C20_Witness ==
    /\ pc = "done" /\ failed /\ ret.err
    /\ FirstJobRef(pods["b"].owner) = "" /\ Len(pods["b"].owner) = 1
    /\ agents["b"] = "none" /\ pods["b"].present
    /\ jobs = {"b", "c", "d"}

\* C21 (staleness check is a pure, idempotent read): the first step of a
\* pass changes no pool, node, pod or record, and on an unchanged cluster
\* UpdateNeeded returns the same outdated nodes and pools whatever the
\* order in which the nodes are listed.
C21_PureIdempotent ==
    /\ [](\A o1, o2 \in NodeOrders :
            UpdateNeededIn(o1, Nodepools) = UpdateNeededIn(o2, Nodepools))
    /\ [][(pc = "idle" /\ pc' \in {"surge", "done"}) => UNCHANGED world]_vars

\* The recorded value has one of the two shapes the campaign writes.
WellFormed(scalingData) ==
    /\ JsonOk(scalingData)
    /\ \/ {"MinCount", "MaxCount"} \subseteq DOMAIN ParseScaling(scalingData)
       \/ "Count" \in DOMAIN ParseScaling(scalingData)

\* The live profile of the pool is the recorded target.
MatchesTarget(pool, scalingData) ==
    /\ WellFormed(scalingData)
    /\ LET cfg == ParseScaling(scalingData)
       IN IF "MinCount" \in DOMAIN cfg /\ "MaxCount" \in DOMAIN cfg
          THEN pool.auto /\ pool.min = Ptr(cfg["MinCount"]) /\ pool.max = Ptr(cfg["MaxCount"])
          ELSE ~pool.auto /\ pool.count = cfg["Count"]

\* The request body carries the recorded target.
CarriesTarget(body, scalingData) ==
    /\ WellFormed(scalingData)
    /\ LET cfg == ParseScaling(scalingData)
       IN IF "MinCount" \in DOMAIN cfg /\ "MaxCount" \in DOMAIN cfg
          THEN body.auto /\ body.min = Ptr(cfg["MinCount"]) /\ body.max = Ptr(cfg["MaxCount"])
          ELSE ~body.auto /\ body.count = cfg["Count"]

\* What claim C22 asks of one call of SetDefaultScaling.
NoOpOnMatch ==
    IF MatchesTarget(fnOut.pool, cm.data["p1"])
    THEN ~fnOut.submitted /\ ~fnOut.err /\ pools["p1"] = fnOut.pool
    ELSE /\ fnOut.submitted
         /\ CarriesTarget(fnOut.body, cm.data["p1"])
         /\ fnOut.resp = "conflict" => ~fnOut.err /\ pools["p1"] = fnOut.pool

\* C22 as stated: when the live configuration of the pool equals the
\* recorded target, SetDefaultScaling submits no write and returns
\* success; otherwise it submits one write carrying the target, and a
\* conflict answer to it is returned as success.
C22_AsStated == fnOut.applied => NoOpOnMatch

\* C22, amended: for a pool whose provisioning state is Succeeded and a
\* recorded value of one of the two shapes, SetDefaultScaling submits no
\* write and returns success when the live configuration equals the
\* target; otherwise it submits one write carrying the target, and a
\* conflict answer to it is returned as success.
C22_NoOpOnMatch ==
    (/\ fnOut.applied
     /\ fnOut.pool.state = "Succeeded"
     /\ WellFormed(cm.data["p1"])) => NoOpOnMatch

C22_Witness ==
    /\ fnOut.applied
    /\ fnOut.pool.state = "Succeeded"
    /\ MatchesTarget(fnOut.pool, cm.data["p1"])
    /\ ~fnOut.submitted
    /\ ~fnOut.err

\* C23 (derived names): for every base pool name b the name of the surge
\* pool is "tmp" followed by the first min(len(b), 9) characters of b, the
\* same for the same b, so it starts with "tmp" and is never longer than
\* 12 characters; the name of the record is "tmp" followed by the name of
\* the campaign.
C23_DerivedNames ==
    fnOut.applied =>
      /\ \A i \in {1, 2} :
           LET s == IF i = 1 THEN fnOut.a ELSE fnOut.b
               b == s.base
               kept == IF Len(b) < 9 THEN Len(b) ELSE 9
               name == fnOut.out[i].pool
           IN /\ Len(name) = 3 + kept
              /\ Len(name) <= 12
              /\ SubSeq(name, 1, 3) = <<"t", "m", "p">>
              /\ \A j \in 1..kept : name[3 + j] = b[j]
              /\ fnOut.out[i].record[2] = <<"t", "m", "p">> \o s.name
      /\ fnOut.a.base = fnOut.b.base => fnOut.out[1].pool = fnOut.out[2].pool

C23_Witness ==
    /\ fnOut.applied
    /\ Len(fnOut.a.base) > 9
    /\ Len(fnOut.out[1].pool) = 12
    /\ Len(fnOut.b.base) < 9

\* C24 (surge creation step): in a pass that finds no surge pool and in
\* which no call fails, when nothing is outdated the record is deleted,
\* the steady-state delay is returned and nothing else changes; otherwise
\* one surge pool is requested with the profile of the base pool, the
\* short delay is returned, and the pass writes no record, changes no
\* scaling, cordons no node, evicts no pod and triggers no upgrade. A
\* surge pool is requested only when none exists and something is
\* outdated.
C24_SurgeCreation ==
    /\ [][(pc = "surge" /\ ~loc.tmpExists /\ pc' # "idle" /\ ~failed') =>
            /\ pc' = "done"
            /\ UNCHANGED <<nodes, pods, jobs, agents>>
            /\ IF NothingOutdated(loc)
               THEN /\ ~cm'.exists
                    /\ ret'.after = "Upgrade"
                    /\ pools' = pools
                    /\ acts' \subseteq {"deleteConfigMap"}
               ELSE /\ cm' = cm
                    /\ ret'.after = "Success"
                    /\ acts' = {"createPool"}
                    /\ \A p \in PoolNames \ {TmpPool} : pools'[p] = pools[p]
                    /\ pools'[TmpPool].exists
                    /\ pools'[TmpPool].state = "Creating"
                    /\ LET base == pools[BaseForBackupPool]
                           new == pools'[TmpPool]
                       IN <<new.mode, new.auto, new.min, new.max, new.count>>
                          = <<base.mode, base.auto, base.min, base.max, base.count>>]_vars
    /\ [][(pools'[TmpPool] # pools[TmpPool] /\ pools'[TmpPool].state = "Creating") =>
            /\ ~pools[TmpPool].exists
            /\ pc = "surge"
            /\ ~NothingOutdated(loc)]_vars

C24_Witness ==
    /\ pc = "done"
    /\ acts = {"createPool"}
    /\ ret.after = "Success"
    /\ ~failed
    /\ pools[TmpPool].exists
    /\ pools[TmpPool].state = "Creating"
    /\ ~cm.exists

\* C25 (surge capacity before drain): the record is created, autoscaling
\* of a monitored pool is disabled, its nodes are cordoned and its pods
\* are evicted only in a pass in which the surge pool exists in state
\* Succeeded; while the surge pool is being provisioned or is in another
\* state that is not ready (Failed, Deleting) no monitored pool is
\* cordoned or drained.
C25_SurgeBeforeDrain ==
    [][(/\ pc \in {"record", "disable", "drain", "evict"}
        /\ loc.mode = "main"
        /\ \/ ~cm.exists /\ cm'.exists
           \/ pools' # pools
           \/ \E n \in NodeNames : ~nodes[n].unsched /\ nodes'[n].unsched
           \/ pods' # pods)
       => /\ pools[TmpPool].exists
          /\ pools[TmpPool].state = "Succeeded"]_vars

\* The scaling profile of a pool as the record is meant to hold it.
ProfileOf(pool) ==
    IF pool.auto
    THEN << <<"MinCount", pool.min[1]>>, <<"MaxCount", pool.max[1]>> >>
    ELSE << <<"Count", pool.count>> >>

ScalingOf(pool) == <<pool.auto, pool.min, pool.max, pool.count>>

\* C26 (snapshot content): a record the engine creates holds one entry for
\* each pool of the outdated set and no other, each the scaling profile
\* the pool has before the engine changes it ({MinCount, MaxCount} iff
\* autoscaled, {Count} iff fixed), and the engine changes the scaling of
\* an outdated pool only when the record holds that pool's profile: the
\* state before the upgrade is captured once.
C26_Snapshot ==
    /\ [][(pc = "record" /\ ~cm.exists /\ cm'.exists) =>
            /\ DOMAIN cm'.data = DOMAIN loc.outdatedNodePools
            /\ \A p \in DOMAIN cm'.data : cm'.data[p] = ProfileOf(pools[p])]_vars
    /\ [][\A p \in Range(Nodepools) :
            (/\ pc = "disable"
             /\ loc.mode = "main"
             /\ ScalingOf(pools'[p]) # ScalingOf(pools[p]))
            => /\ cm.exists
               /\ p \in DOMAIN cm.data]_vars

\* Work the pass still has at position idx of the upgrade loop: a later
\* monitored pool whose upgrade can be triggered, or a recorded pool that
\* is no longer outdated.
WorkLeft ==
    \/ \E j \in (loc.idx + 1)..Len(Nodepools) :
         /\ UpgradeGateOpen(Nodepools[j])
         /\ UpgradeWanted(Nodepools[j], pools[Nodepools[j]])
    \/ DOMAIN loc.configMapData \ DOMAIN loc.outdatedNodePools # {}

\* C27 (per-pass completeness of upgrade and restore): past a drain that
\* did not fail, a pass in which no call fails examines every monitored
\* pool for the upgrade and restores and uncordons every recorded pool
\* that is not outdated; a monitored pool in the middle of its image
\* upgrade keeps the pass neither from the upgrade of the later pools nor
\* from the restore of the finished ones.
C27_PassCompleteness ==
    /\ [][(pc = "upgrade" /\ WorkLeft /\ pc' # "idle" /\ ~failed')
            => pc' \in {"upgrade", "restore"}]_vars
    /\ [][(pc = "restore" /\ loc.rtodo # {} /\ pc' # "idle" /\ ~failed')
            => /\ pc' = "restore"
               /\ \E p \in loc.rtodo :
                    /\ loc'.rtodo = loc.rtodo \ {p}
                    /\ \A n \in NodeNames :
                         (nodes[n].present /\ nodes[n].pool = p) => ~nodes'[n].unsched]_vars

\* C28 (surge teardown gate): the deletion of the surge pool is submitted
\* only when no node and no pool is outdated, the autoscaling of the surge
\* pool is disabled, its nodes are cordoned and no Running pod of a
\* guarded namespace is on one of them; the surge pool is never deleted
\* while a monitored pool is outdated or not ready.
C28_TeardownGate ==
    [][(pc = "tremove" /\ "deletePool" \in acts')
       => /\ NothingOutdatedNow
          /\ ~pools[TmpPool].auto
          /\ \A n \in GetNodesByNodePool(TmpPool) : nodes[n].unsched
          /\ ~HasRunningStatefulPods(GetNodesByNodePool(TmpPool), Namespaces)]_vars

\* C29 (restore error classes): for a recorded value that is malformed
\* (not parseable, or with neither MinCount and MaxCount nor Count)
\* SetDefaultScaling submits no update and the pass ends with the error
\* delay; for a pool that is not Succeeded when the restore comes to it no
\* update is submitted, the pool is not uncordoned and the pass returns
\* the short progress delay, not an error.
C29_RestoreErrors ==
    /\ [](pc = "restore" =>
            \A p \in loc.rtodo :
              LET call == SetDefaultScalingCall(pools[p], loc.configMapData[p], "accepted")
              IN /\ (pools[p].state = "Succeeded" /\ ~WellFormed(loc.configMapData[p]))
                      => ~call.submitted /\ call.err /\ RestoreError(pools[p]) = "Error"
                 /\ pools[p].state # "Succeeded"
                      => ~call.submitted /\ call.err /\ RestoreError(pools[p]) = "Success")
    /\ [][(pc = "restore" /\ pc' = "restore") =>
            \A p \in loc.rtodo \ loc'.rtodo :
              /\ WellFormed(loc.configMapData[p])
              /\ pools[p].state = "Succeeded"]_vars

\* C30 (drain precedes upgrade): for every outdated pool the pass first
\* disables autoscaling, then cordons the nodes of the pool, then selects
\* the pods on those nodes that are safe to evict and evicts them; a
\* failure in this sequence ends the pass before any image upgrade,
\* restore or teardown of the surge pool.
C30_DrainPrecedesUpgrade ==
    /\ [][(pc = "disable" /\ loc.mode = "main" /\ pc' = "drain") =>
            \A p, q \in loc.todo :
               p # q => DisableSkips(loc.evPools[p]) \/ DisableSkips(loc.evPools[q])]_vars
    /\ [][(pc = "evict" /\ loc.mode = "main") =>
            \A x \in PodNames :
               (pods[x].present /\ ~pods'[x].present)
                 => /\ nodes[pods[x].node].unsched
                    /\ nodes[pods[x].node].pool \in DOMAIN loc.evPools]_vars
    /\ [][(/\ pc \in {"disable", "drain", "evict"}
           /\ loc.mode = "main"
           /\ failed'
           /\ pc' # "idle")
          => pc' = "done" /\ ret'.after = "Error"]_vars
    /\ [][(pc # "upgrade" /\ pc' = "upgrade")
          => pc = "drain" /\ loc.todo = {} /\ ~failed]_vars

\* The nodes of the cluster labelled as nodes of pool p.
LabelledNodes(p) == {n \in NodeNames : nodes[n].present /\ nodes[n].pool = p}

\* C31 (cordon frame): a successful CordonNodesByAgentPool(pool, b) leaves
\* the unschedulable flag b on every node labelled as a node of the pool
\* and changes no node of another pool and no other field of a node; no
\* step of a pass adds or removes a node.
C31_CordonFrame ==
    /\ [][(pc = "drain" /\ loc.todo # {} /\ pc' \in {"drain", "evict"}) =>
            \E p \in loc.todo \ loc'.todo :
               \A n \in NodeNames :
                  nodes'[n] = IF n \in LabelledNodes(p)
                              THEN [nodes[n] EXCEPT !.unsched = TRUE]
                              ELSE nodes[n]]_vars
    /\ [][(pc = "restore" /\ loc.rtodo # {} /\ pc' = "restore" /\ ~failed') =>
            \E p \in loc.rtodo \ loc'.rtodo :
               \A n \in NodeNames :
                  nodes'[n] = IF n \in LabelledNodes(p)
                              THEN [nodes[n] EXCEPT !.unsched = FALSE]
                              ELSE nodes[n]]_vars
    /\ [][(pc # "idle" \/ pc' # "idle") =>
            \A n \in NodeNames :
               /\ nodes'[n].present = nodes[n].present
               /\ nodes'[n].pool = nodes[n].pool
               /\ nodes'[n].version = nodes[n].version]_vars

C31_Witness ==
    /\ pc = "evict"
    /\ loc.mode = "main"
    /\ "cordon" \in acts
    /\ \E p \in DOMAIN loc.evPools :
         /\ LabelledNodes(p) # {}
         /\ \A n \in LabelledNodes(p) : nodes[n].unsched
    /\ \E n \in NodeNames : nodes[n].present /\ ~nodes[n].unsched

\* C32 (RestrictToNodes): filterPodsOnNodes returns the elements of its
\* input whose node name is the name of one of the given nodes, in the
\* order of the input and each element of the input once; a pod without a
\* node or on another node is left out.
C32_RestrictToNodes ==
    fnOut.applied =>
      LET kept == {i \in DOMAIN fnOut.list : pods[fnOut.list[i]].node \in fnOut.nodes}
          nth(j) == CHOOSE i \in kept : Cardinality({m \in kept : m <= i}) = j
      IN /\ Len(fnOut.out) = Cardinality(kept)
         /\ \A j \in DOMAIN fnOut.out : fnOut.out[j] = fnOut.list[nth(j)]
         /\ \A j \in DOMAIN fnOut.out : pods[fnOut.out[j]].node # ""

C32_Witness ==
    /\ fnOut.applied
    /\ Len(fnOut.out) = 2
    /\ Len(fnOut.list) = 4
    /\ \E i \in DOMAIN fnOut.list : pods[fnOut.list[i]].node = ""
    /\ \E i \in DOMAIN fnOut.list : pods[fnOut.list[i]].node \notin fnOut.nodes \cup {""}

\* The monitored pools that are autoscaled when the campaign starts.
AutoscaledAtStart == {"p1"}

\* The engine has disabled the autoscaling of pool p or cordoned one of its
\* nodes, and has not restored and uncordoned it since.
Touched(p) ==
    \/ p \in AutoscaledAtStart /\ ~pools[p].auto
    \/ \E n \in NodeNames : nodes[n].present /\ nodes[n].pool = p /\ nodes[n].unsched

\* C33 (the record covers every touched pool): in every state each
\* monitored pool whose autoscaling the engine has disabled or whose nodes
\* it has cordoned, and which is not yet restored and uncordoned, has an
\* entry in the record, also when the pool became outdated after the
\* record was created.
C33_RecordCoversTouched ==
    \A p \in Range(Nodepools) :
       Touched(p) => cm.exists /\ p \in DOMAIN cm.data

\* Every node of a monitored pool is schedulable and every monitored pool
\* has the scaling mode it had when the campaign started.
CleanPools ==
    \A p \in Range(Nodepools) :
       /\ pools[p].auto = (p \in AutoscaledAtStart)
       /\ \A n \in NodeNames :
            (nodes[n].present /\ nodes[n].pool = p) => ~nodes[n].unsched

\* C34 (clean steady state): when a pass returns the long steady-state
\* delay every node of every monitored pool is schedulable and every
\* monitored pool has the scaling mode it had before the engine touched
\* it; no pool is cordoned or has its autoscaling disabled once the record
\* is deleted.
C34_CleanSteadyState ==
    /\ (pc = "done" /\ ret.after = "Upgrade") => CleanPools
    /\ ~cm.exists => CleanPools


\* C35: no duplicate selection.  Whatever the selector, the list of pods
\* handed to EvictIdlePods names each pod at most once, and a pod that was
\* evicted in a pass is not met again by a later eviction step of the
\* same pass.
C35_NoDuplicateSelection ==
    /\ [](pc = "evict" =>
            \A i, j \in DOMAIN loc.evList : loc.evList[i] = loc.evList[j] => i = j)
    /\ [][(pc = "evict" /\ pc' # "idle" /\ ~pods'[Head(loc.evList)].present)
            => pods[Head(loc.evList)].present]_vars

\* C36: upgrade only of drained, outdated pools.  A step of the upgrade
\* loop that submits a node-image upgrade for a pool does so for a pool of
\* the outdated set computed at the start of the same pass, all of whose
\* nodes are cordoned.
C36_UpgradeOnlyOutdated ==
    [][\A p \in Range(Nodepools) :
          (/\ pc = "upgrade" /\ pc' # "idle"
           /\ pools[p].state # "UpgradingNodeImageVersion"
           /\ pools'[p].state = "UpgradingNodeImageVersion")
          => /\ p \in DOMAIN loc.outdatedNodePools
             /\ \A n \in LabelledNodes(p) : nodes[n].unsched]_vars

\* The pools of the campaign: the monitored ones and the surge pool.
CampaignPools == Range(Nodepools) \cup {TmpPool}

\* The nodes that carry the label of a pool outside the campaign.
ForeignNodes == {n \in NodeNames : nodes[n].present /\ nodes[n].pool \notin CampaignPools}

\* The pods that run on such a node.
ForeignPods == {x \in PodNames : pods[x].present /\ pods[x].node \in ForeignNodes}

\* C37: frame on unmanaged pools.  No step of a pass changes a pool that
\* is neither monitored nor the surge pool (the base pool included), a
\* node of such a pool, or a pod, job or agent running on such a node; the
\* outdated set holds monitored pools only and the surge pool is never
\* put into the state of a node-image upgrade.
C37_UnmanagedFrame ==
    /\ [](DOMAIN loc.outdatedNodePools \subseteq Range(Nodepools))
    /\ [][(pc # "idle" \/ pc' # "idle") =>
            /\ \A p \in PoolNames \ CampaignPools : pools'[p] = pools[p]
            /\ \A n \in ForeignNodes : nodes'[n] = nodes[n]
            /\ \A x \in ForeignPods :
                  /\ pods'[x] = pods[x]
                  /\ agents'[x] = agents[x]
                  /\ (x \in jobs) = (x \in jobs')
            /\ pools'[TmpPool].state = "UpgradingNodeImageVersion"
                  => pools[TmpPool].state = "UpgradingNodeImageVersion"]_vars

\* C37: a pass has cordoned and drained the outdated monitored pool while
\* an outdated node of the base pool runs a pod of a monitored namespace
\* that is safe to evict.
C37_Witness ==
    /\ pc = "upgrade"
    /\ "cordon" \in acts
    /\ \E x \in ForeignPods :
          /\ Contains(Namespaces, pods[x].ns)
          /\ SafeToEvictCopies(pods[x], SafeEvictSpec, FALSE) > 0
          /\ nodes[pods[x].node].version # pools[nodes[pods[x].node].pool].latest

\* C38: any stale node marks its pool.  After step 1 of a pass every
\* monitored pool that has a node whose image version differs from the
\* pool's latest version is in the outdated pool set and all its nodes
\* are in the outdated node set, in whatever order the nodes are listed.
C38_AnyStaleNode ==
    pc = "surge" =>
        \A p \in Range(Nodepools) :
            (\E n \in GetNodesByNodePool(p) : nodes[n].version # pools[p].latest)
            => /\ p \in DOMAIN loc.outdatedNodePools
               /\ GetNodesByNodePool(p) \subseteq loc.outdatedNodes

\* The terminal condition: every monitored pool is ready and every node
\* of it carries the pool's latest version, there is no surge pool and no
\* record.
Quiescent ==
    /\ NothingOutdatedNow
    /\ \A p \in Range(Nodepools) :
          \A n \in GetNodesByNodePool(p) : nodes[n].version = pools[p].latest
    /\ ~pools[TmpPool].exists
    /\ ~cm.exists

\* C39: a quiescent pass is a no-op.  Every step of a pass run in the
\* terminal condition leaves pools, nodes, pods, jobs, agents and the
\* record as they are and makes no mutating call, the pass ends with the
\* long delay, or the error delay when a call fails, and the terminal
\* condition still holds afterwards, so any number of such passes leaves
\* the world unchanged.
C39_QuiescentNoOp ==
    [][(Quiescent /\ (pc # "idle" \/ pc' # "idle")) =>
         /\ world' = world
         /\ acts' = {}
         /\ pc' = "done" => ret'.after \in {"Upgrade", "Error"}
         /\ Quiescent']_vars

\* C39: a campaign has been carried out (node n1 runs a newer image than
\* at the start) and a pass run in the terminal condition has returned the
\* long delay.
C39_Witness ==
    /\ Quiescent
    /\ pc = "done"
    /\ ret.after = "Upgrade"
    /\ nodes["n1"].version > 1
====
